---- MODULE Spec2Model ----
(***************************************************************************)
(* State-machine model of the second-hand item platform: the SQLite users  *)
(* and items tables (utils/database.py), the category configuration file   *)
(* (utils/category_config.py) and the request handlers of main.py.         *)
(*                                                                         *)
(* Text is modelled as a sequence of one-character strings, so that        *)
(* str.strip(), len() and emptiness tests are computed as Python computes  *)
(* them.  A Chinese character is written as its pinyin syllable and counts *)
(* as one character ("qi","ta" is the two-character name of the catch-all  *)
(* category).  Python's None is the value None below.                      *)
(***************************************************************************)
EXTENDS Integers, Sequences, FiniteSets, TLC

VARIABLES
    users,        \* rows of table users, in rowid order
    items,        \* rows of table items (a set: id is the primary key)
    cfgFile,      \* category_config.json: NoFile or its payload
    imageFiles,   \* files stored under IMAGE_DIR
    ret,          \* what the last handler returned
    deletedIds,   \* history: ids removed by delete_item so far
    regLog,       \* history: <<u, p, a>>: register_user(u, p, ..) succeeded; a: approve_user(u) succeeded since
    calls,        \* the handler call each request thread is in, and where in it
    tmpFile       \* category_config.json.tmp: NoFile or its content

vars == <<users, items, cfgFile, imageFiles, ret, deletedIds, regLog, calls, tmpFile>>

(***************************************************************************)
(* Python values                                                           *)
(***************************************************************************)
None == <<"None">>
Empty == <<>>

\* `x or ""`
OrEmpty(x) == IF x = None THEN Empty ELSE x

\* truth value of a str-or-None
Truthy(x) == x # None /\ x # Empty

IsSpace(c) == c \in {" ", "\n", "\t"}

\* str.strip(): the text between its first and its last non-space character
Strip(s) ==
    IF s = <<>> THEN s
    ELSE IF ~IsSpace(s[1]) /\ ~IsSpace(s[Len(s)]) THEN s
    ELSE LET solid == {i \in 1..Len(s) : ~IsSpace(s[i])} IN
         IF solid = {} THEN <<>>
         ELSE SubSeq(s, CHOOSE i \in solid : \A j \in solid : i <= j,
                        CHOOSE i \in solid : \A j \in solid : j <= i)

\* the set of elements of a sequence
Range(s) == {s[i] : i \in 1..Len(s)}

\* a list given position by position, as the list itself
List(f) == SelectSeq(f, LAMBDA x : TRUE)

\* s without the repeats of an element, first occurrences kept in order
Dedupe(s) ==
    LET firsts == SelectSeq([i \in 1..Len(s) |-> i],
                      LAMBDA i : \A j \in 1..(i - 1) : s[j] # s[i])
    IN  List([k \in 1..Len(firsts) |-> s[firsts[k]]])

(***************************************************************************)
(* Python dict, kept in insertion order: a sequence of <<key, value>>.     *)
(***************************************************************************)
DictKeys(d) == {d[i][1] : i \in 1..Len(d)}

DictHas(d, k) == k \in DictKeys(d)

DictGet(d, k, default) ==
    IF DictHas(d, k) THEN d[CHOOSE i \in 1..Len(d) : d[i][1] = k][2] ELSE default

\* d[k] = v
DictSet(d, k, v) ==
    IF DictHas(d, k)
    THEN List([i \in 1..Len(d) |-> IF d[i][1] = k THEN <<k, v>> ELSE d[i]])
    ELSE Append(d, <<k, v>>)

\* d.pop(k, None)
DictPop(d, k) == SelectSeq(d, LAMBDA e : e[1] # k)

\* d.setdefault(k, v)
DictSetDefault(d, k, v) == IF DictHas(d, k) THEN d ELSE Append(d, <<k, v>>)

\* the dict built by assigning pairs[1], pairs[2], ... in turn: a key keeps the
\* place of its first assignment and the value of its last
DictFromPairs(pairs) ==
    LET keys == Dedupe(List([i \in 1..Len(pairs) |-> pairs[i][1]]))
        last(k) == LET at == {i \in 1..Len(pairs) : pairs[i][1] = k}
                   IN  CHOOSE i \in at : \A j \in at : j <= i
    IN  List([n \in 1..Len(keys) |-> <<keys[n], pairs[last(keys[n])][2]>>])

(***************************************************************************)
(* Text used as input                                                      *)
(***************************************************************************)
admin == <<"a", "d", "m", "i", "n">>
user1 == <<"u", "s", "e", "r", "1">>
user2 == <<"u", "s", "e", "r", "2">>
bob == <<"b", "o", "b">>
carol == <<"c", "a", "r", "o", "l">>
bobPadded == <<" ", "b", "o", "b">>
ab == <<"a", "b">>
admin123 == <<"a", "d", "m", "i", "n", "1", "2", "3">>
password1 == <<"p", "a", "s", "s", "w", "o", "r", "d", "1">>
password2 == <<"p", "a", "s", "s", "w", "o", "r", "d", "2">>
secret1 == <<"s", "e", "c", "r", "e", "t", "1">>
secret1Padded == <<"s", "e", "c", "r", "e", "t", "1", " ">>
short == <<"s", "h", "o", "r", "t">>
contactC == <<"c">>
addressA == <<"a">>
blank == <<" ">>

(***************************************************************************)
(* Users: utils/database.py                                                *)
(***************************************************************************)
\* row_to_dict(None): no row matched
NoRow == [id |-> 0]

\* SELECT ... FROM users WHERE username = ? ... fetchone()
get_user_by_username(username, tbl) ==
    IF \E i \in 1..Len(tbl) : tbl[i].username = username
    THEN tbl[CHOOSE i \in 1..Len(tbl) :
                /\ tbl[i].username = username
                /\ \A j \in 1..Len(tbl) : tbl[j].username = username => i <= j]
    ELSE NoRow

\* authenticate_user without the status check
authenticate_user_noStatus(username, password, tbl, require_approved) ==
    LET user == get_user_by_username(username, tbl) IN
    IF user = NoRow THEN FALSE ELSE user.password = password

authenticate_user(username, password, tbl, require_approved) ==
    LET user == get_user_by_username(username, tbl) IN
    IF user = NoRow THEN FALSE
    ELSE IF require_approved /\ user.status # "approved" THEN FALSE
    ELSE user.password = password

\* main.authenticate, the login callback
authenticate(username, password, tbl) ==
    IF ~Truthy(username) \/ ~Truthy(password) THEN FALSE
    ELSE authenticate_user(username, password, tbl, TRUE)

\* the rowid SQLite gives an INSERT into a table with INTEGER PRIMARY KEY
NextRowId(tbl) ==
    IF tbl = <<>> THEN 1
    ELSE 1 + CHOOSE m \in {tbl[i].id : i \in 1..Len(tbl)} :
                 \A i \in 1..Len(tbl) : tbl[i].id <= m

MinUsernameLen == 3
MinPasswordLen == 6

\* the checks of register_user without the one on the address
RegisterValidation_noAddressCheck(username, password, contact, address) ==
    IF username = Empty \/ password = Empty THEN "username_or_password_empty"
    ELSE IF Len(username) < MinUsernameLen THEN "username_too_short"
    ELSE IF Len(password) < MinPasswordLen THEN "password_too_short"
    ELSE IF contact = Empty THEN "contact_empty"
    ELSE "OK"

\* the checks of register_user before its INSERT: "OK" or the message returned
RegisterValidation(username, password, contact, address) ==
    IF username = Empty \/ password = Empty THEN "username_or_password_empty"
    ELSE IF Len(username) < MinUsernameLen THEN "username_too_short"
    ELSE IF Len(password) < MinPasswordLen THEN "password_too_short"
    ELSE IF contact = Empty THEN "contact_empty"
    ELSE IF address = Empty THEN "address_empty"
    ELSE "OK"

\* users.username without its UNIQUE constraint
UsernameTaken_never(username, tbl) == FALSE

\* the UNIQUE constraint on users.username: the INSERT raises IntegrityError
UsernameTaken(username, tbl) == \E i \in 1..Len(tbl) : tbl[i].username = username

\* the INSERT of register_user writing role admin
NewUserRow_admin(username, password, contact, address, tbl) ==
    [id |-> NextRowId(tbl), username |-> username, password |-> password,
     role |-> "admin", status |-> "pending", contact |-> contact, address |-> address]

NewUserRow(username, password, contact, address, tbl) ==
    [id |-> NextRowId(tbl), username |-> username, password |-> password,
     role |-> "user", status |-> "pending", contact |-> contact, address |-> address]

\* register_user: <<ok, msg, table afterwards>>
register_user(username0, password0, contact0, address0, tbl) ==
    LET username == Strip(OrEmpty(username0))
        password == Strip(OrEmpty(password0))
        contact == Strip(OrEmpty(contact0))
        address == Strip(OrEmpty(address0))
        v == RegisterValidation(username, password, contact, address)
    IN  IF v # "OK" THEN <<FALSE, v, tbl>>
        ELSE IF UsernameTaken(username, tbl) THEN <<FALSE, "username_exists", tbl>>
        ELSE <<TRUE, "registered_pending",
               Append(tbl, NewUserRow(username, password, contact, address, tbl))>>

\* approve_user treating an approved user as an error
approve_user_refusingApproved(target_username0, tbl) ==
    LET target == Strip(OrEmpty(target_username0)) IN
    IF target = Empty THEN <<FALSE, "approve_name_empty", tbl>>
    ELSE IF \A i \in 1..Len(tbl) : tbl[i].username # target
         THEN <<FALSE, "user_not_found", tbl>>
    ELSE IF get_user_by_username(target, tbl).status = "approved"
         THEN <<FALSE, "already_approved", tbl>>
    ELSE <<TRUE, "approved_now",
           List([i \in 1..Len(tbl) |->
               IF tbl[i].username = target
               THEN [tbl[i] EXCEPT !.status = "approved"] ELSE tbl[i]])>>

\* approve_user: <<ok, msg, table afterwards>>
approve_user(target_username0, tbl) ==
    LET target == Strip(OrEmpty(target_username0)) IN
    IF target = Empty THEN <<FALSE, "approve_name_empty", tbl>>
    ELSE IF ~UsernameTaken(target, tbl) THEN <<FALSE, "user_not_found", tbl>>
    ELSE IF get_user_by_username(target, tbl).status = "approved"
         THEN <<TRUE, "already_approved", tbl>>
    ELSE <<TRUE, "approved_now",
           List([i \in 1..Len(tbl) |->
               IF tbl[i].username = target
               THEN [tbl[i] EXCEPT !.status = "approved"] ELSE tbl[i]])>>

\* _is_admin_request letting every known user through
is_admin_request_anyKnownUser(request, tbl) ==
    IF request = None \/ request = Empty THEN FALSE
    ELSE get_user_by_username(request, tbl) # NoRow

\* _is_admin_request: request is None or the request's username
is_admin_request(request, tbl) ==
    IF request = None \/ request = Empty THEN FALSE
    ELSE LET me == get_user_by_username(request, tbl) IN
         me # NoRow /\ me.role = "admin"

(***************************************************************************)
(* constants.py: the built-in categories and their field definitions.      *)
(* Category names and labels are Chinese in the source; each character is  *)
(* written as its pinyin syllable.                                         *)
(***************************************************************************)
shuji == <<"shu", "ji">>
shuma == <<"shu", "ma">>
jujia == <<"ju", "jia">>
shipin == <<"shi", "pin">>
meizhuang == <<"mei", "zhuang">>
piaoquan == <<"piao", "quan">>
yishi == <<"yi", "shi">>
xiebao == <<"xie", "bao">>
yundong == <<"yun", "dong">>
wenju == <<"wen", "ju">>
wanju == <<"wan", "ju">>
yueqi == <<"yue", "qi">>
qita == <<"qi", "ta">>

k_author == <<"a", "u", "t", "h", "o", "r">>
k_publisher == <<"p", "u", "b", "l", "i", "s", "h", "e", "r">>
k_brand == <<"b", "r", "a", "n", "d">>
k_model == <<"m", "o", "d", "e", "l">>
k_material == <<"m", "a", "t", "e", "r", "i", "a", "l">>
k_quantity == <<"q", "u", "a", "n", "t", "i", "t", "y">>
k_expiry_date == <<"e", "x", "p", "i", "r", "y", "_", "d", "a", "t", "e">>
k_valid_until == <<"v", "a", "l", "i", "d", "_", "u", "n", "t", "i", "l">>
k_size == <<"s", "i", "z", "e">>
k_age_range == <<"a", "g", "e", "_", "r", "a", "n", "g", "e">>

l_zuozhe == <<"zuo", "zhe">>
l_chubanshe == <<"chu", "ban", "she">>
l_pinpai == <<"pin", "pai">>
l_xinghao == <<"xing", "hao">>
l_caizhi == <<"cai", "zhi">>
l_shuliang == <<"shu", "liang">>
l_baozhiqi == <<"bao", "zhi", "qi">>
l_youxiaoqi == <<"you", "xiao", "qi">>
l_chima == <<"chi", "ma">>
l_shiyongnianling == <<"shi", "yong", "nian", "ling">>

Field(key, label, required) == [key |-> key, label |-> label, required |-> required]

\* CATEGORIES
DEFAULT_CATEGORIES ==
    <<shuji, shuma, jujia, shipin, meizhuang, piaoquan, yishi,
      xiebao, yundong, wenju, wanju, yueqi, qita>>

\* CATEGORY_FIELDS
DEFAULT_CATEGORY_FIELDS ==
    <<
      <<shuji, <<Field(k_author, l_zuozhe, TRUE), Field(k_publisher, l_chubanshe, FALSE)>>>>,
      <<shuma, <<Field(k_brand, l_pinpai, FALSE), Field(k_model, l_xinghao, FALSE)>>>>,
      <<jujia, <<Field(k_material, l_caizhi, FALSE), Field(k_quantity, l_shuliang, FALSE)>>>>,
      <<shipin, <<Field(k_expiry_date, l_baozhiqi, TRUE), Field(k_quantity, l_shuliang, TRUE)>>>>,
      <<meizhuang, <<Field(k_brand, l_pinpai, FALSE), Field(k_expiry_date, l_baozhiqi, FALSE)>>>>,
      <<piaoquan, <<Field(k_valid_until, l_youxiaoqi, FALSE)>>>>,
      <<yishi, <<Field(k_size, l_chima, FALSE)>>>>,
      <<xiebao, <<Field(k_size, l_chima, FALSE), Field(k_brand, l_pinpai, FALSE)>>>>,
      <<yundong, <<Field(k_brand, l_pinpai, FALSE)>>>>,
      <<wenju, <<Field(k_brand, l_pinpai, FALSE)>>>>,
      <<wanju, <<Field(k_age_range, l_shiyongnianling, FALSE)>>>>,
      <<yueqi, <<Field(k_brand, l_pinpai, FALSE), Field(k_model, l_xinghao, FALSE)>>>>,
      <<qita, <<>>>>
    >>

MAX_DYNAMIC_FIELDS == 10

(***************************************************************************)
(* The category configuration: utils/category_config.py                   *)
(***************************************************************************)
NoFile == [exists |-> FALSE]
NoField == [invalid |-> TRUE]

Min(a, b) == IF a <= b THEN a ELSE b

\* s[:n]
Take(s, n) == SubSeq(s, 1, Min(Len(s), n))

\* _normalize_field: a field read from JSON is {key, label, required}; a missing
\* key or label reads as ""
normalize_field(field) ==
    LET key == Strip(field.key)
        label == Strip(field.label)
    IN  IF key = Empty \/ label = Empty THEN NoField
        ELSE [key |-> key, label |-> label, required |-> field.required]

\* [c.strip() for c in categories if str(c).strip()]
StripNonBlank(cs) ==
    SelectSeq([i \in 1..Len(cs) |-> Strip(cs[i])], LAMBDA c : c # Empty)

\* those loops without seen_keys
FieldProblem_noSeenKeys(nfs, i, bad_msg) ==
    IF nfs[i] = NoField THEN bad_msg ELSE "OK"

\* what the field loops of _validate_config and upsert_category say of the field
\* at position i: "OK", or why the loop returns there
\* (nfs: the fields, each through _normalize_field)
FieldProblem(nfs, i, bad_msg) ==
    IF nfs[i] = NoField THEN bad_msg
    ELSE IF \E j \in 1..(i - 1) : nfs[j] # NoField /\ nfs[j].key = nfs[i].key
         THEN "duplicate_field_key"
    ELSE "OK"

\* the loop over one category's fields: the first problem met, or "OK"
FieldsCheck(fields, bad_msg) ==
    LET nfs == List([i \in 1..Len(fields) |-> normalize_field(fields[i])])
        bad == {i \in 1..Len(fields) : FieldProblem(nfs, i, bad_msg) # "OK"}
    IN  IF bad = {} THEN "OK"
        ELSE FieldProblem(nfs, CHOOSE i \in bad : \A j \in bad : i <= j, bad_msg)

\* what the loop of _validate_config over category_fields.items() says of entry n
EntryProblem(d, n) ==
    IF Strip(d[n][1]) = Empty THEN "blank_category_key"
    ELSE IF Len(d[n][2]) > MAX_DYNAMIC_FIELDS THEN "too_many_fields"
    ELSE FieldsCheck(d[n][2], "bad_field_format")

\* that loop: the first problem met, or "OK"
ValidateCategoryFields(d) ==
    LET bad == {n \in 1..Len(d) : EntryProblem(d, n) # "OK"} IN
    IF bad = {} THEN "OK"
    ELSE EntryProblem(d, CHOOSE n \in bad : \A m \in bad : n <= m)

\* _validate_config: "OK" or the message
validate_config(categories, category_fields) ==
    LET cs == StripNonBlank(categories) IN
    IF Len(cs) # Cardinality(Range(cs)) THEN "categories_duplicate"
    ELSE ValidateCategoryFields(category_fields)

\* a file cut short or overwritten in part: json.load raises on it
TornFile == [exists |-> TRUE, torn |-> TRUE]

\* load_config: the file when it exists, parses and validates, else the defaults
load_config(file) ==
    IF file # TornFile /\ file.exists /\ validate_config(file.categories, file.category_fields) = "OK"
    THEN [categories |-> file.categories, category_fields |-> file.category_fields]
    ELSE [categories |-> DEFAULT_CATEGORIES, category_fields |-> DEFAULT_CATEGORY_FIELDS]

\* get_categories after its load_config(): the catch-all is appended when
\* missing, repeats are dropped
CategoriesOf(cfg) ==
    LET cs == StripNonBlank(cfg.categories)
        withOther == IF qita \notin Range(cs) THEN Append(cs, qita) ELSE cs
    IN  Dedupe(withOther)

get_categories(file) == CategoriesOf(load_config(file))

\* [nf for f in fields if (nf := _normalize_field(f))]
NormalizeAll(fields) ==
    SelectSeq([i \in 1..Len(fields) |-> normalize_field(fields[i])],
              LAMBDA nf : nf # NoField)

\* the first loop of get_category_fields, over raw.items()
NormalizeDict(raw) ==
    LET kept == SelectSeq(raw, LAMBDA e : Strip(e[1]) # Empty) IN
    DictFromPairs(List([i \in 1..Len(kept) |->
        <<Strip(kept[i][1]), Take(NormalizeAll(kept[i][2]), MAX_DYNAMIC_FIELDS)>>]))

\* for c in cs: d.setdefault(c, [])
SetDefaults(d, cs) ==
    LET new == SelectSeq(Dedupe(cs), LAMBDA c : ~DictHas(d, c)) IN
    d \o List([i \in 1..Len(new) |-> <<new[i], <<>>>>])

\* get_category_fields after its load_config()
CategoryFieldsOf(cfg) == SetDefaults(NormalizeDict(cfg.category_fields), CategoriesOf(cfg))

get_category_fields(file) == CategoryFieldsOf(load_config(file))

\* {str(k).strip(): v for k, v in category_fields.items() if str(k).strip()}
StripKeys(d) ==
    LET kept == SelectSeq(d, LAMBDA e : Strip(e[1]) # Empty) IN
    DictFromPairs(List([i \in 1..Len(kept) |-> <<Strip(kept[i][1]), kept[i][2]>>]))

\* the file save_config writes: every category keeps an entry
SavedFields(categories, category_fields) ==
    SetDefaults(StripKeys(category_fields), StripNonBlank(categories))

\* save_config: <<ok, msg, file afterwards>>; _atomic_write_json replaces the file
save_config(categories, category_fields, file) ==
    LET v == validate_config(categories, category_fields) IN
    IF v # "OK" THEN <<FALSE, v, file>>
    ELSE <<TRUE, "config_saved",
           [exists |-> TRUE,
            categories |-> StripNonBlank(categories),
            category_fields |-> SavedFields(categories, category_fields)]>>

\* the loop of upsert_category over fields_raw: "OK" or the message
UpsertFieldsCheck(fields_raw) == FieldsCheck(fields_raw, "field_needs_key_and_label")

MaxCategoryNameLen == 20

\* [new_name if c == old_name else c for c in categories]
RenameIn(categories, old_name, new_name) ==
    List([i \in 1..Len(categories) |->
        IF categories[i] = old_name THEN new_name ELSE categories[i]])

\* the branches of upsert_category, the rename dropping the new fields
UpsertBranches_renameWithoutFields(old_name, new_name, normalized_fields, categories, fields_map) ==
    IF old_name = None
    THEN IF new_name \in Range(categories)
         THEN <<"OK", categories, DictSet(fields_map, new_name, normalized_fields)>>
         ELSE <<"OK", Append(categories, new_name),
                DictSet(fields_map, new_name, normalized_fields)>>
    ELSE IF old_name # new_name
    THEN IF new_name \in Range(categories)
         THEN <<"new_name_exists", categories, fields_map>>
         ELSE IF old_name \notin Range(categories)
         THEN <<"old_name_missing", categories, fields_map>>
         ELSE <<"OK", RenameIn(categories, old_name, new_name), DictPop(fields_map, old_name)>>
    ELSE <<"OK", categories, DictSet(fields_map, old_name, normalized_fields)>>

\* the branches of upsert_category after validation: <<failure or "OK", categories, fields_map>>
UpsertBranches(old_name, new_name, normalized_fields, categories, fields_map) ==
    IF old_name = None
    THEN IF new_name \in Range(categories)
         THEN <<"OK", categories, DictSet(fields_map, new_name, normalized_fields)>>
         ELSE <<"OK", Append(categories, new_name),
                DictSet(fields_map, new_name, normalized_fields)>>
    ELSE IF old_name # new_name
    THEN IF new_name \in Range(categories)
         THEN <<"new_name_exists", categories, fields_map>>
         ELSE IF old_name \notin Range(categories)
         THEN <<"old_name_missing", categories, fields_map>>
         ELSE <<"OK", RenameIn(categories, old_name, new_name),
                DictPop(DictSet(fields_map, new_name, normalized_fields), old_name)>>
    ELSE <<"OK", categories, DictSet(fields_map, old_name, normalized_fields)>>

\* upsert_category without its check of the length of new_name
upsert_category_anyLength(old_name0, new_name0, fields_json, file) ==
    LET old_name == IF Strip(OrEmpty(old_name0)) = Empty THEN None
                    ELSE Strip(OrEmpty(old_name0))
        new_name == Strip(OrEmpty(new_name0))
    IN  IF new_name = Empty THEN <<FALSE, "name_empty", file>>
        ELSE IF fields_json.kind = "bad" THEN <<FALSE, "json_parse_failed", file>>
        ELSE IF fields_json.kind = "notlist" THEN <<FALSE, "json_not_array", file>>
        ELSE IF UpsertFieldsCheck(fields_json.v) # "OK"
             THEN <<FALSE, UpsertFieldsCheck(fields_json.v), file>>
        ELSE IF Len(fields_json.v) > MAX_DYNAMIC_FIELDS
             THEN <<FALSE, "too_many_fields", file>>
        ELSE LET cfg == load_config(file)
                 b == UpsertBranches(old_name, new_name, NormalizeAll(fields_json.v),
                                     CategoriesOf(cfg), CategoryFieldsOf(cfg))
                 categories == IF qita \notin Range(b[2]) THEN Append(b[2], qita) ELSE b[2]
             IN  IF b[1] # "OK" THEN <<FALSE, b[1], file>>
                 ELSE save_config(categories, b[3], file)

\* upsert_category: <<ok, msg, file afterwards>>.  fields_json is the JSON text,
\* given by what json.loads makes of it: kind "bad" (no JSON), "notlist" (JSON,
\* not an array), "list" (an array of field objects, v).
upsert_category(old_name0, new_name0, fields_json, file) ==
    LET old_name == IF Strip(OrEmpty(old_name0)) = Empty THEN None
                    ELSE Strip(OrEmpty(old_name0))
        new_name == Strip(OrEmpty(new_name0))
    IN  IF new_name = Empty THEN <<FALSE, "name_empty", file>>
        ELSE IF Len(new_name) > MaxCategoryNameLen THEN <<FALSE, "name_too_long", file>>
        ELSE IF fields_json.kind = "bad" THEN <<FALSE, "json_parse_failed", file>>
        ELSE IF fields_json.kind = "notlist" THEN <<FALSE, "json_not_array", file>>
        ELSE IF UpsertFieldsCheck(fields_json.v) # "OK"
             THEN <<FALSE, UpsertFieldsCheck(fields_json.v), file>>
        ELSE IF Len(fields_json.v) > MAX_DYNAMIC_FIELDS
             THEN <<FALSE, "too_many_fields", file>>
        ELSE LET cfg == load_config(file)
                 b == UpsertBranches(old_name, new_name, NormalizeAll(fields_json.v),
                                     CategoriesOf(cfg), CategoryFieldsOf(cfg))
                 categories == IF qita \notin Range(b[2]) THEN Append(b[2], qita) ELSE b[2]
             IN  IF b[1] # "OK" THEN <<FALSE, b[1], file>>
                 ELSE save_config(categories, b[3], file)

\* delete_category without its check for the catch-all
delete_category_anyName(name0, file) ==
    LET name == Strip(OrEmpty(name0))
        cfg == load_config(file)
        categories == CategoriesOf(cfg)
    IN  IF name = Empty THEN <<FALSE, "select_category", file>>
        ELSE IF name \notin Range(categories) THEN <<FALSE, "category_not_found", file>>
        ELSE save_config(SelectSeq(categories, LAMBDA c : c # name),
                         DictPop(CategoryFieldsOf(cfg), name), file)

\* delete_category: <<ok, msg, file afterwards>>
delete_category(name0, file) ==
    LET name == Strip(OrEmpty(name0))
        cfg == load_config(file)
        categories == CategoriesOf(cfg)
    IN  IF name = Empty THEN <<FALSE, "select_category", file>>
        ELSE IF name = qita THEN <<FALSE, "cannot_delete_other", file>>
        ELSE IF name \notin Range(categories) THEN <<FALSE, "category_not_found", file>>
        ELSE save_config(SelectSeq(categories, LAMBDA c : c # name),
                         DictPop(CategoryFieldsOf(cfg), name), file)

(***************************************************************************)
(* Items: add_item, delete_item and the category handlers of main.py       *)
(***************************************************************************)
Ret(op, ok, msg, info) == [op |-> op, ok |-> ok, msg |-> msg, raised |-> FALSE, info |-> info]

\* a handler that ends with an exception nobody catches
Raised(op, exc) == [op |-> op, ok |-> FALSE, msg |-> exc, raised |-> TRUE, info |-> 0]

ItemIds(tbl) == {it.id : it \in tbl}

Max(S) == CHOOSE m \in S : \A x \in S : x <= m

\* the smallest id no item has
NextItemId_firstFree(tbl) == CHOOSE n \in 1..(Cardinality(tbl) + 1) :
    n \notin ItemIds(tbl) /\ \A k \in 1..(n - 1) : k \in ItemIds(tbl)

\* COUNT(*) + 1
NextItemId_count(tbl) == Cardinality(tbl) + 1

\* SELECT COALESCE(MAX(id), 0) + 1 FROM items
NextItemId(tbl) == IF tbl = {} THEN 1 ELSE Max(ItemIds(tbl)) + 1

\* dynamic_values made MAX_DYNAMIC_FIELDS long: padded with "" or cut
PadDynamic(dynamic_values) ==
    List([i \in 1..MAX_DYNAMIC_FIELDS |->
        IF i <= Len(dynamic_values) THEN dynamic_values[i] ELSE Empty])

\* the value add_item takes for the field at position idx
FieldValue(dynamic_values, idx) ==
    LET dv == PadDynamic(dynamic_values)
        value == IF idx <= Len(dv) THEN dv[idx] ELSE Empty
    IN  IF value = None THEN Empty ELSE Strip(value)

\* that loop leaving out the fields without a value
PackAttributes_filledOnly(field_defs, dynamic_values) ==
    DictFromPairs(SelectSeq(
        List([i \in 1..Len(field_defs) |->
            <<field_defs[i].key, FieldValue(dynamic_values, i)>>]),
        LAMBDA e : e[2] # Empty))

\* the loop of add_item over field_defs: the attributes dict
PackAttributes(field_defs, dynamic_values) ==
    DictFromPairs(List([i \in 1..Len(field_defs) |->
        <<field_defs[i].key, FieldValue(dynamic_values, i)>>]))

\* the loop stopping at the first required field left empty
MissingRequired_firstOnly(field_defs, dynamic_values) ==
    LET all == SelectSeq([i \in 1..Len(field_defs) |-> i],
                   LAMBDA i : field_defs[i].required /\ FieldValue(dynamic_values, i) = Empty)
    IN  IF all = <<>> THEN <<>> ELSE <<field_defs[all[1]].label>>

\* the same loop: the labels of the required fields left empty, in order
MissingRequired(field_defs, dynamic_values) ==
    LET idxs == SelectSeq([i \in 1..Len(field_defs) |-> i],
                    LAMBDA i : field_defs[i].required /\ FieldValue(dynamic_values, i) = Empty)
    IN  List([j \in 1..Len(idxs) |-> field_defs[idxs[j]].label])

\* os.path.splitext(image)[1] or ".jpg"
ExtOf(image) ==
    LET dots == {i \in 2..Len(image) : image[i] = "."} IN
    IF dots = {} THEN <<".", "j", "p", "g">>
    ELSE SubSeq(image, Max(dots), Len(image))

\* save_image: the stored file item_<id>_<timestamp><ext>
ImagePath(image, item_id, timestamp) ==
    [item_id |-> item_id, timestamp |-> timestamp, ext |-> ExtOf(image)]

NoImage == [item_id |-> 0]

\* int(item_id): the number, or -1 for ValueError
DigitChars == <<"0", "1", "2", "3", "4", "5", "6", "7", "8", "9">>

DigitValue(c) == (CHOOSE i \in 1..Len(DigitChars) : DigitChars[i] = c) - 1

RECURSIVE DigitsValue(_, _)
DigitsValue(s, acc) ==
    IF s = <<>> THEN acc ELSE DigitsValue(Tail(s), acc * 10 + DigitValue(Head(s)))

ParseInt(text) ==
    LET t == Strip(text) IN
    IF t = <<>> \/ \E i \in 1..Len(t) : t[i] \notin Range(DigitChars) THEN -1
    ELSE DigitsValue(t, 0)

\* SELECT COUNT(1) FROM items WHERE category = ?
CountInCategory_none(tbl, category) == 0

\* SELECT COUNT(1) FROM items WHERE category = ?
CountInCategory(tbl, category) == Cardinality({it \in tbl : it.category = category})

(***************************************************************************)
(* Inputs of the catalog handlers                                          *)
(***************************************************************************)
MaxItems == 2

Books == <<"B", "o", "o", "k", "s">>
BooksPadded == <<" ", "B", "o", "o", "k", "s", " ">>
Novels == <<"N", "o", "v", "e", "l", "s">>
LongName == List([i \in 1..(MaxCategoryNameLen + 1) |-> "x"])
pen == <<"p", "e", "n">>
photoPng == <<"p", ".", "p", "n", "g">>
valX == <<"x">>
valYPadded == <<" ", "y", " ">>
authorPadded == <<" ", "a", "u", "t", "h", "o", "r">>
l_Author == <<"A", "u", "t", "h", "o", "r">>
l_AuthorPadded == <<"A", "u", "t", "h", "o", "r", " ">>
l_Year == <<"Y", "e", "a", "r">>
k_year == <<"y", "e", "a", "r">>

\* <<second save_image reads the clock, second add_item does>>
Times == {<<1, 1>>, <<1, 2>>}

JsonList(v) == [kind |-> "list", v |-> v]

KeyLetters == <<"a", "b", "c", "d", "e", "f", "g", "h", "i", "j", "k", "l">>

\* field lists upsert_category accepts
FieldsAuthor == <<Field(k_author, l_Author, TRUE)>>
FieldsPadded == <<Field(authorPadded, l_AuthorPadded, TRUE), Field(k_year, l_Year, FALSE)>>

\* field lists it refuses: a repeated key, a blank label, one field too many
FieldsRepeatedKey == <<Field(k_author, l_Author, TRUE), Field(authorPadded, l_Year, FALSE)>>
FieldsBlankLabel == <<Field(k_author, blank, FALSE)>>
FieldsTooMany ==
    List([i \in 1..(MAX_DYNAMIC_FIELDS + 1) |-> Field(<<"k", KeyLetters[i]>>, l_Year, FALSE)])

\* as many fields as it accepts
FieldsFull == Take(FieldsTooMany, MAX_DYNAMIC_FIELDS)

AddReq(name, category, contact, image, dynamic_values, t_image, t_create) ==
    [name |-> name, category |-> category, description |-> Empty, address |-> Empty,
     contact |-> contact, image |-> image, dynamic_values |-> dynamic_values,
     t_image |-> t_image, t_create |-> t_create]

SaveReq(selected, new_name, fields_json, request) ==
    [selected |-> selected, new_name |-> new_name, fields_json |-> fields_json,
     request |-> request]

\* requests to add_item with a name and a contact
AddInputs(categories, dynamics, images, times) ==
    {AddReq(pen, cat, contactC, img, dv, t[1], t[2]) :
        cat \in categories, img \in images, dv \in dynamics, t \in times}

\* requests to add_item that leave the name or the contact out
AddRefusals ==
    {AddReq(Empty, qita, contactC, None, <<>>, 1, 1),
     AddReq(None, qita, contactC, None, <<>>, 1, 1),
     AddReq(pen, qita, Empty, None, <<>>, 1, 1),
     AddReq(Empty, shuji, contactC, None, <<>>, 1, 1)}

ItemIdInputs == {None, Empty, <<"x">>} \cup {<<DigitChars[i + 1]>> : i \in 1..(MaxItems + 1)}

\* requests of the admin to admin_category_save
SaveInputs(selections, names, fields) ==
    {SaveReq(sel, nn, JsonList(f), admin) : sel \in selections, nn \in names, f \in fields}

\* requests to admin_category_save it refuses: one for each check of
\* upsert_category, and two from callers who are no admin
SaveRefusals ==
         {SaveReq(None, Empty, JsonList(FieldsAuthor), admin),
          SaveReq(shuji, blank, JsonList(FieldsAuthor), admin),
          SaveReq(None, LongName, JsonList(FieldsAuthor), admin),
          SaveReq(None, Books, [kind |-> "bad"], admin),
          SaveReq(shuji, shuji, [kind |-> "notlist"], admin),
          SaveReq(None, Books, JsonList(FieldsRepeatedKey), admin),
          SaveReq(shuji, shuji, JsonList(FieldsBlankLabel), admin),
          SaveReq(None, Books, JsonList(FieldsTooMany), admin),
          SaveReq(None, Books, JsonList(FieldsAuthor), user1),
          SaveReq(shuji, Books, JsonList(FieldsAuthor), None)}

\* requests to admin_category_delete: <<selected_category, request>>
DeleteCategoryInputs ==
    {<<c, admin>> : c \in {shuji, Books, BooksPadded, qita, Empty, None}}
    \cup {<<shuji, None>>, <<shuji, user1>>}

\* requests to delete_item: <<item_id, whether os.remove finds the image>>
DeleteItemInputs == ItemIdInputs \X BOOLEAN

\* the request threads, and a thread between two calls
Procs == {1, 2}
Idle == [pc |-> "idle"]

userVars == <<users, regLog>>
raceVars == <<calls, tmpFile>>
catalogVars == <<items, cfgFile, imageFiles, deletedIds>>

(***************************************************************************)
(* JSON text of the attributes: a sequence of characters.                  *)
(***************************************************************************)
\* seqs[1] + seqs[2] + ...
Flatten(seqs) ==
    LET acc[i \in 0..Len(seqs)] == IF i = 0 THEN <<>> ELSE acc[i - 1] \o seqs[i]
    IN  acc[Len(seqs)]

\* a character written into a JSON string as it is
EscChar_plain(c) == <<c>>

\* a character as json.dumps(ensure_ascii=False) writes it into a string
EscChar(c) ==
    IF c = "\"" THEN <<"\\", "\"">>
    ELSE IF c = "\\" THEN <<"\\", "\\">>
    ELSE IF c = "\n" THEN <<"\\", "n">>
    ELSE IF c = "\t" THEN <<"\\", "t">>
    ELSE <<c>>

\* a str as a JSON string
JsonString(text) ==
    <<"\"">> \o Flatten(List([i \in 1..Len(text) |-> EscChar(text[i])])) \o <<"\"">>

\* json.dumps(attributes, ensure_ascii=False) of a dict of str
json_dumps(d) ==
    <<"{">>
    \o Flatten(List([n \in 1..Len(d) |->
           (IF n = 1 THEN <<>> ELSE <<",", " ">>)
           \o JsonString(d[n][1]) \o <<":", " ">> \o JsonString(d[n][2])]))
    \o <<"}">>

\* the character an escape sequence \c stands for, among those of this alphabet
Unescaped(c) ==
    IF c = "n" THEN "\n" ELSE IF c = "t" THEN "\t" ELSE c

\* The decoder of json.loads as it reads a text character by character.  It
\* covers objects whose values are strings, strings, integers, [] and null;
\* text that is JSON beyond these (nested values, \u escapes, true, false,
\* fractions) ends in the mode "unmodelled".
Scan0 == [mode |-> "start", kind |-> "none", pairs |-> <<>>, key |-> <<>>, buf |-> <<>>]

\* inside a string, in mode plain or, after a backslash, esc; done is the
\* decoder after the closing quote
InStr(st, c, plain, esc, done) ==
    IF st.mode = plain
    THEN IF c = "\"" THEN done
         ELSE IF c = "\\" THEN [st EXCEPT !.mode = esc]
         ELSE IF c \in {"\n", "\t"} THEN [st EXCEPT !.mode = "error"]
         ELSE [st EXCEPT !.buf = Append(@, c)]
    ELSE IF c \in {"\"", "\\", "/", "n", "t"}
         THEN [st EXCEPT !.mode = plain, !.buf = Append(@, Unescaped(c))]
         ELSE IF c \in {"b", "f", "r", "u"} THEN [st EXCEPT !.mode = "unmodelled"]
         ELSE [st EXCEPT !.mode = "error"]

Step(st, c) ==
    LET to(mode) == [st EXCEPT !.mode = mode]
        ws == IsSpace(c)
        digit == \E i \in 1..Len(DigitChars) : DigitChars[i] = c
    IN  CASE st.mode = "start" ->
                 IF ws THEN st
                 ELSE IF c = "{" THEN [st EXCEPT !.mode = "obj_open", !.kind = "object"]
                 ELSE IF c = "\"" THEN [st EXCEPT !.mode = "tstr", !.kind = "string"]
                 ELSE IF c = "0" THEN [st EXCEPT !.mode = "tzero", !.kind = "number"]
                 ELSE IF digit THEN [st EXCEPT !.mode = "tnum", !.kind = "number"]
                 ELSE IF c = "[" THEN [st EXCEPT !.mode = "arr_open", !.kind = "array"]
                 ELSE IF c = "n" THEN [st EXCEPT !.mode = "lit1", !.kind = "null"]
                 ELSE IF c \in {"-", "t", "f", "N", "I"} THEN to("unmodelled")
                 ELSE to("error")
          [] st.mode = "lit1" -> IF c = "u" THEN to("lit2") ELSE to("error")
          [] st.mode = "lit2" -> IF c = "l" THEN to("lit3") ELSE to("error")
          [] st.mode = "lit3" -> IF c = "l" THEN to("done") ELSE to("error")
          [] st.mode = "tzero" ->
                 IF ws THEN to("done")
                 ELSE IF c \in {".", "e", "E"} THEN to("unmodelled") ELSE to("error")
          [] st.mode = "tnum" ->
                 IF digit THEN st
                 ELSE IF ws THEN to("done")
                 ELSE IF c \in {".", "e", "E"} THEN to("unmodelled") ELSE to("error")
          [] st.mode = "arr_open" ->
                 IF ws THEN st ELSE IF c = "]" THEN to("done") ELSE to("unmodelled")
          [] st.mode \in {"tstr", "tstr_esc"} ->
                 InStr(st, c, "tstr", "tstr_esc", to("done"))
          [] st.mode = "obj_open" ->
                 IF ws THEN st
                 ELSE IF c = "}" THEN to("done")
                 ELSE IF c = "\"" THEN [st EXCEPT !.mode = "key", !.buf = <<>>]
                 ELSE to("error")
          [] st.mode \in {"key", "key_esc"} ->
                 InStr(st, c, "key", "key_esc",
                       [st EXCEPT !.mode = "after_key", !.key = st.buf])
          [] st.mode = "after_key" ->
                 IF ws THEN st ELSE IF c = ":" THEN to("before_val") ELSE to("error")
          [] st.mode = "before_val" ->
                 IF ws THEN st
                 ELSE IF c = "\"" THEN [st EXCEPT !.mode = "val", !.buf = <<>>]
                 ELSE IF digit \/ c \in {"-", "{", "[", "t", "f", "n", "N", "I"}
                      THEN to("unmodelled")
                 ELSE to("error")
          [] st.mode \in {"val", "val_esc"} ->
                 InStr(st, c, "val", "val_esc",
                       [st EXCEPT !.mode = "after_val",
                                  !.pairs = Append(@, <<st.key, st.buf>>)])
          [] st.mode = "after_val" ->
                 IF ws THEN st
                 ELSE IF c = "," THEN to("after_comma")
                 ELSE IF c = "}" THEN to("done")
                 ELSE to("error")
          [] st.mode = "after_comma" ->
                 IF ws THEN st
                 ELSE IF c = "\"" THEN [st EXCEPT !.mode = "key", !.buf = <<>>]
                 ELSE to("error")
          [] st.mode = "done" -> IF ws THEN st ELSE to("error")
          [] OTHER -> st

\* json.loads(text): [ok, kind, value]; ok is FALSE where it raises and
\* "unmodelled" where the text leaves the grammar above
json_loads(text) ==
    LET run[i \in 0..Len(text)] == IF i = 0 THEN Scan0 ELSE Step(run[i - 1], text[i])
        end == run[Len(text)]
    IN  IF end.mode = "unmodelled" THEN [ok |-> "unmodelled", kind |-> "none", value |-> <<>>]
        ELSE IF end.mode \in {"done", "tnum", "tzero"}
             THEN [ok |-> "yes", kind |-> end.kind,
                   value |-> IF end.kind = "object" THEN DictFromPairs(end.pairs) ELSE <<>>]
        ELSE [ok |-> "no", kind |-> "none", value |-> <<>>]

Unmodelled == <<<<"unmodelled">>>>

\* _parse_attributes
parse_attributes(attributes_text) ==
    IF ~Truthy(attributes_text) THEN <<>>
    ELSE LET value == json_loads(attributes_text) IN
         IF value.ok = "unmodelled" THEN Unmodelled
         ELSE IF value.ok = "yes" /\ value.kind = "object" THEN value.value
         ELSE <<>>

(***************************************************************************)
(* The catalog handlers                                                    *)
(***************************************************************************)
\* add_item on the items table tbl, the stored images files and the configuration
\* file: the return value and the table and images afterwards.  t_image and
\* t_create are the two readings of datetime.now().
add_item(name, category, description, address, contact, image, dynamic_values, t_image, t_create, tbl, files, file) ==
    LET field_defs == DictGet(get_category_fields(file), category, <<>>)
        attributes == PackAttributes(field_defs, dynamic_values)
        missing_required == MissingRequired(field_defs, dynamic_values)
        new_id == NextItemId(tbl)
        image_path == IF Truthy(image) THEN ImagePath(image, new_id, t_image) ELSE NoImage
        stored == IF Truthy(image) THEN files \cup {image_path} ELSE files
    IN  IF ~Truthy(name) \/ ~Truthy(contact)
        THEN [ret |-> Ret("add_item", FALSE, "name_or_contact_empty", 0),
              items |-> tbl, imageFiles |-> files]
        ELSE IF missing_required # <<>>
        THEN [ret |-> Ret("add_item", FALSE, "missing_required", missing_required),
              items |-> tbl, imageFiles |-> files]
        ELSE IF category = None
        THEN \* items.category is NOT NULL: the INSERT raises IntegrityError
             [ret |-> Raised("add_item", "IntegrityError"),
              items |-> tbl, imageFiles |-> stored]
        ELSE [ret |-> Ret("add_item", TRUE, "item_added", new_id),
              items |-> tbl \cup
                  {[id |-> new_id, name |-> name, description |-> description,
                    address |-> address, contact |-> contact,
                    create_time |-> t_create, category |-> category,
                    image |-> image_path, attributes |-> json_dumps(attributes)]},
              imageFiles |-> stored]

AddItem(name, category, description, address, contact, image, dynamic_values, t_image, t_create) ==
    \E r \in {add_item(name, category, description, address, contact, image, dynamic_values, t_image, t_create, items, imageFiles, cfgFile)} :
        /\ t_image <= t_create
        /\ (r.ret.ok \/ r.ret.raised) => NextItemId(items) <= MaxItems
        /\ ret' = r.ret
        /\ items' = r.items
        /\ imageFiles' = r.imageFiles
        /\ UNCHANGED <<cfgFile, deletedIds>>
        /\ UNCHANGED userVars
        /\ UNCHANGED raceVars

\* delete_item with DELETE FROM items WHERE id <= ?
DeleteItem_upTo(item_id, removed) ==
    /\ IF ~Truthy(item_id)
       THEN /\ ret' = Ret("delete_item", FALSE, "id_empty", 0)
            /\ UNCHANGED <<items, imageFiles, deletedIds>>
       ELSE IF ParseInt(item_id) < 0
       THEN /\ ret' = Ret("delete_item", FALSE, "id_not_number", 0)
            /\ UNCHANGED <<items, imageFiles, deletedIds>>
       ELSE IF ParseInt(item_id) \notin ItemIds(items)
       THEN /\ ret' = Ret("delete_item", FALSE, "id_not_found", 0)
            /\ UNCHANGED <<items, imageFiles, deletedIds>>
       ELSE LET row == CHOOSE it \in items : it.id = ParseInt(item_id) IN
            /\ imageFiles' = IF row.image # NoImage /\ row.image \in imageFiles /\ removed
                             THEN imageFiles \ {row.image} ELSE imageFiles
            /\ items' = {it \in items : it.id > ParseInt(item_id)}
            /\ deletedIds' = deletedIds \cup {ParseInt(item_id)}
            /\ ret' = Ret("delete_item", TRUE, "item_deleted", ParseInt(item_id))
    /\ UNCHANGED cfgFile
    /\ UNCHANGED userVars
    /\ UNCHANGED raceVars

\* delete_item.  removed: whether os.remove of the image file went through
\* (delete_image swallows its failure).
DeleteItem(item_id, removed) ==
    /\ IF ~Truthy(item_id)
       THEN /\ ret' = Ret("delete_item", FALSE, "id_empty", 0)
            /\ UNCHANGED <<items, imageFiles, deletedIds>>
       ELSE IF ParseInt(item_id) < 0
       THEN /\ ret' = Ret("delete_item", FALSE, "id_not_number", 0)
            /\ UNCHANGED <<items, imageFiles, deletedIds>>
       ELSE IF ParseInt(item_id) \notin ItemIds(items)
       THEN /\ ret' = Ret("delete_item", FALSE, "id_not_found", 0)
            /\ UNCHANGED <<items, imageFiles, deletedIds>>
       ELSE LET row == CHOOSE it \in items : it.id = ParseInt(item_id) IN
            /\ imageFiles' = IF row.image # NoImage /\ row.image \in imageFiles /\ removed
                             THEN imageFiles \ {row.image} ELSE imageFiles
            /\ items' = {it \in items : it.id # ParseInt(item_id)}
            /\ deletedIds' = deletedIds \cup {ParseInt(item_id)}
            /\ ret' = Ret("delete_item", TRUE, "item_deleted", ParseInt(item_id))
    /\ UNCHANGED cfgFile
    /\ UNCHANGED userVars
    /\ UNCHANGED raceVars

\* admin_category_save: <<ok, msg, file afterwards>>
admin_category_save(selected_category, new_name, fields_json, request, utbl, file) ==
    IF ~is_admin_request(request, utbl) THEN <<FALSE, "admin_only", file>>
    ELSE upsert_category(selected_category, new_name, fields_json, file)

AdminCategorySave(selected_category, new_name, fields_json, request) ==
    /\ \E r \in {admin_category_save(selected_category, new_name, fields_json, request, users, cfgFile)} :
            /\ cfgFile' = r[3]
            /\ ret' = Ret("admin_category_save", r[1], r[2], 0)
    /\ UNCHANGED <<items, imageFiles, deletedIds>>
    /\ UNCHANGED userVars
    /\ UNCHANGED raceVars

\* admin_category_delete: <<ok, msg, the count it reports, file afterwards>>
admin_category_delete(selected_category0, request, tbl, utbl, file) ==
    LET selected_category == Strip(OrEmpty(selected_category0))
        cnt == CountInCategory(tbl, selected_category)
        r == delete_category(selected_category, file)
    IN  IF ~is_admin_request(request, utbl) THEN <<FALSE, "admin_only", 0, file>>
        ELSE IF selected_category = Empty THEN <<FALSE, "select_category", 0, file>>
        ELSE IF cnt > 0 THEN <<FALSE, "category_in_use", cnt, file>>
        ELSE <<r[1], r[2], 0, r[3]>>

AdminCategoryDelete(selected_category, request) ==
    \E r \in {admin_category_delete(selected_category, request, items, users, cfgFile)} :
    /\ ret' = Ret("admin_category_delete", r[1], r[2], r[3])
    /\ cfgFile' = r[4]
    /\ UNCHANGED <<items, imageFiles, deletedIds>>
    /\ UNCHANGED userVars
    /\ UNCHANGED raceVars

(***************************************************************************)
(* The user handlers of main.py                                            *)
(***************************************************************************)
UsernameInputs == {bob, bobPadded, carol, ab, user1, None}
PasswordInputs == {secret1, secret1Padded, password2, short}
ContactInputs == {contactC, Empty}
AddressInputs == {addressA, Empty, blank}
ApproveInputs == {bob, bobPadded, carol, user2, ab, Empty}

\* requests to do_register: <<username, password, confirm_password, contact,
\* address>>; those that pass its checks, and one for each refusal
RegisterRequests ==
    {<<u, p, p, contactC, addressA>> :
        u \in {bob, bobPadded, carol, user1}, p \in {secret1, secret1Padded}}
    \cup {<<bob, secret1, password2, contactC, addressA>>,
          <<None, secret1, secret1, contactC, addressA>>,
          <<ab, secret1, secret1, contactC, addressA>>,
          <<ab, short, short, contactC, addressA>>,
          <<bob, short, short, contactC, addressA>>,
          <<bob, secret1, secret1, Empty, addressA>>,
          <<bob, secret1, secret1, contactC, Empty>>,
          <<carol, password2, password2, contactC, blank>>}

\* requests to admin_approve_user: <<target_username, request>>
ApproveRequests ==
    {<<t, admin>> : t \in ApproveInputs}
    \cup {<<bob, None>>, <<bob, user1>>, <<bob, bob>>, <<user2, carol>>}

\* do_register
DoRegister(username, password, confirm_password, contact, address) ==
    /\ IF password # confirm_password
       THEN /\ ret' = Ret("do_register", FALSE, "password_mismatch", 0)
            /\ UNCHANGED <<users, regLog>>
       ELSE \E r \in {register_user(username, password, contact, address, users)} :
            /\ users' = r[3]
            /\ ret' = Ret("do_register", r[1], r[2], 0)
            /\ regLog' = IF r[1] THEN regLog \cup {<<username, password, FALSE>>}
                         ELSE regLog
    /\ UNCHANGED catalogVars
    /\ UNCHANGED raceVars

\* admin_approve_user: <<ok, msg, table afterwards>>
admin_approve_user(target_username, request, tbl) ==
    IF ~is_admin_request(request, tbl) THEN <<FALSE, "admin_only", tbl>>
    ELSE approve_user(target_username, tbl)

AdminApproveUser(target_username, request) ==
    /\ \E r \in {admin_approve_user(target_username, request, users)} :
            /\ users' = r[3]
            /\ ret' = Ret("admin_approve_user", r[1], r[2], 0)
            /\ regLog' = IF r[1]
                         THEN {<<e[1], e[2], e[3] \/ e[1] = target_username>> : e \in regLog}
                         ELSE regLog
    /\ UNCHANGED catalogVars
    /\ UNCHANGED raceVars

(***************************************************************************)
(* Search                                                                  *)
(***************************************************************************)
UpperLetters == <<"A", "B", "C", "D", "E", "F", "G", "H", "I", "J", "K", "L", "M",
                  "N", "O", "P", "Q", "R", "S", "T", "U", "V", "W", "X", "Y", "Z">>
LowerLetters == <<"a", "b", "c", "d", "e", "f", "g", "h", "i", "j", "k", "l", "m",
                  "n", "o", "p", "q", "r", "s", "t", "u", "v", "w", "x", "y", "z">>

\* str.lower() of one character
LowerChar(c) ==
    IF \E i \in 1..26 : UpperLetters[i] = c
    THEN LowerLetters[CHOOSE i \in 1..26 : UpperLetters[i] = c] ELSE c

\* str.lower()
Lower(text) == List([i \in 1..Len(text) |-> LowerChar(text[i])])

\* needle in hay, of two strings
Contains(needle, hay) ==
    \E i \in 0..(Len(hay) - Len(needle)) : SubSeq(hay, i + 1, i + Len(needle)) = needle

\* load_items: the rows of the table, ORDER BY id ASC
load_items(tbl) ==
    List([k \in 1..Cardinality(tbl) |->
        CHOOSE it \in tbl : Cardinality({o \in tbl : o.id < it.id}) = k - 1])

\* the category every search accepts
quanbu == <<"quan", "bu">>

\* category_filter of search_items: None, a string (kind "str") or a list of
\* strings (kind "list")
NoFilter == [kind |-> "None", v |-> <<>>]
StrFilter(category) == [kind |-> "str", v |-> category]
ListFilter(categories) == [kind |-> "list", v |-> categories]

\* the first comprehension of search_items: the rows the category filter keeps
ByCategory(rows, category_filter0) ==
    LET category_filter == IF category_filter0 = NoFilter \/ category_filter0.v = <<>>
                           THEN StrFilter(quanbu) ELSE category_filter0
    IN  IF category_filter.kind = "str"
        THEN IF category_filter.v # quanbu
             THEN SelectSeq(rows, LAMBDA item : item.category = category_filter.v)
             ELSE rows
        ELSE IF quanbu \notin Range(category_filter.v)
             THEN SelectSeq(rows, LAMBDA item : item.category \in Range(category_filter.v))
             ELSE rows

\* the condition of the second comprehension on one row, where it can be
\* evaluated: the description is read only when the name does not match
KeywordIn(keyword, item) ==
    \/ Contains(Lower(keyword), Lower(item.name))
    \/ Contains(Lower(keyword), Lower(item.description))

\* the rows on which that condition calls None.lower(): item.get('description',
\* '') is None when the column is NULL, for load_items always sets the key
KeywordRaises(keyword, item) ==
    /\ ~Contains(Lower(keyword), Lower(item.name))
    /\ item.description = None

\* search_items: the rows it renders, in order, or the exception it ends with
search_items(keyword, category_filter, tbl) ==
    LET rows == ByCategory(load_items(tbl), category_filter)
    IN  IF ~Truthy(keyword) THEN [raised |-> FALSE, rows |-> rows]
        ELSE IF \E i \in 1..Len(rows) : KeywordRaises(keyword, rows[i])
        THEN [raised |-> TRUE, rows |-> <<>>]
        ELSE [raised |-> FALSE, rows |-> SelectSeq(rows, LAMBDA item : KeywordIn(keyword, item))]

\* search_items as a step: ret.info is the ids of the rows found
SearchItems(keyword, category_filter) ==
    /\ \E r \in {search_items(keyword, category_filter, items)} :
           ret' = IF r.raised THEN Raised("search_items", "AttributeError")
                  ELSE Ret("search_items", TRUE, "",
                           List([i \in 1..Len(r.rows) |-> r.rows[i].id]))
    /\ UNCHANGED catalogVars
    /\ UNCHANGED userVars
    /\ UNCHANGED raceVars

\* _parse_attributes as a step, as _render_attributes_html calls it on the
\* attributes column of a row
ParseAttributes(attributes_text) ==
    /\ ret' = Ret("_parse_attributes", TRUE, "", parse_attributes(attributes_text))
    /\ UNCHANGED catalogVars
    /\ UNCHANGED userVars
    /\ UNCHANGED raceVars

(***************************************************************************)
(* Handlers run by request threads at the same time.  A call is a sequence *)
(* of steps, one for each access to the database or to the configuration   *)
(* files; calls[p] holds what the call has read so far.                    *)
(***************************************************************************)
Done(op, q, result) == [pc |-> "done", op |-> op, q |-> q, ret |-> result]

\* a call ends: the thread keeps what it returned
Return(p, op, q, result) ==
    /\ calls' = [calls EXCEPT ![p] = Done(op, q, result)]
    /\ ret' = result

\* add_item up to SELECT COALESCE(MAX(id), 0) + 1: the checks, then the id read
AddItemSelect(p, q) ==
    /\ calls[p] = Idle
    /\ LET field_defs == DictGet(get_category_fields(cfgFile), q.category, <<>>)
           missing_required == MissingRequired(field_defs, q.dynamic_values)
       IN  IF ~Truthy(q.name) \/ ~Truthy(q.contact)
           THEN Return(p, "add_item", q, Ret("add_item", FALSE, "name_or_contact_empty", 0))
           ELSE IF missing_required # <<>>
           THEN Return(p, "add_item", q,
                       Ret("add_item", FALSE, "missing_required", missing_required))
           ELSE /\ calls' = [calls EXCEPT ![p] =
                        [pc |-> "add_insert", op |-> "add_item", q |-> q,
                         attributes |-> PackAttributes(field_defs, q.dynamic_values),
                         new_id |-> NextItemId(items)]]
                /\ UNCHANGED ret
    /\ UNCHANGED <<catalogVars, userVars, tmpFile>>

\* add_item from save_image to the end of the with block: the INSERT under
\* the id read before, which raises IntegrityError when the id is taken (id is
\* the primary key) or the category is NULL
AddItemInsert(p) ==
    /\ calls[p].pc = "add_insert"
    /\ LET c == calls[p]
           q == c.q
           image_path == IF Truthy(q.image) THEN ImagePath(q.image, c.new_id, q.t_image)
                         ELSE NoImage
       IN  /\ imageFiles' = IF Truthy(q.image) THEN imageFiles \cup {image_path}
                            ELSE imageFiles
           /\ IF q.category = None \/ c.new_id \in ItemIds(items)
              THEN /\ Return(p, "add_item", q, Raised("add_item", "IntegrityError"))
                   /\ UNCHANGED items
              ELSE /\ Return(p, "add_item", q, Ret("add_item", TRUE, "item_added", c.new_id))
                   /\ items' = items \cup
                          {[id |-> c.new_id, name |-> q.name, description |-> q.description,
                            address |-> q.address, contact |-> q.contact,
                            create_time |-> q.t_create, category |-> q.category,
                            image |-> image_path, attributes |-> json_dumps(c.attributes)]}
    /\ UNCHANGED <<cfgFile, deletedIds, userVars, tmpFile>>

\* the checks of upsert_category that read no file: "OK" or the message
UpsertRefusal(new_name, fields_json) ==
    IF new_name = Empty THEN "name_empty"
    ELSE IF Len(new_name) > MaxCategoryNameLen THEN "name_too_long"
    ELSE IF fields_json.kind = "bad" THEN "json_parse_failed"
    ELSE IF fields_json.kind = "notlist" THEN "json_not_array"
    ELSE IF UpsertFieldsCheck(fields_json.v) # "OK" THEN UpsertFieldsCheck(fields_json.v)
    ELSE IF Len(fields_json.v) > MAX_DYNAMIC_FIELDS THEN "too_many_fields"
    ELSE "OK"

\* admin_category_save up to categories = get_categories() in upsert_category
SaveReadCategories(p, q) ==
    /\ calls[p] = Idle
    /\ LET old_name == IF Strip(OrEmpty(q.selected)) = Empty THEN None
                       ELSE Strip(OrEmpty(q.selected))
           new_name == Strip(OrEmpty(q.new_name))
       IN  IF ~is_admin_request(q.request, users)
           THEN Return(p, "admin_category_save", q,
                       Ret("admin_category_save", FALSE, "admin_only", 0))
           ELSE IF UpsertRefusal(new_name, q.fields_json) # "OK"
           THEN Return(p, "admin_category_save", q,
                       Ret("admin_category_save", FALSE, UpsertRefusal(new_name, q.fields_json), 0))
           ELSE /\ calls' = [calls EXCEPT ![p] =
                        [pc |-> "save_fields", op |-> "admin_category_save", q |-> q,
                         old_name |-> old_name, new_name |-> new_name,
                         categories |-> get_categories(cfgFile)]]
                /\ UNCHANGED ret
    /\ UNCHANGED <<catalogVars, userVars, tmpFile>>

\* upsert_category from fields_map = get_category_fields() to the payload that
\* save_config hands to _atomic_write_json
SaveReadFields(p) ==
    /\ calls[p].pc = "save_fields"
    /\ LET c == calls[p]
           b == UpsertBranches(c.old_name, c.new_name, NormalizeAll(c.q.fields_json.v),
                               c.categories, get_category_fields(cfgFile))
           categories == IF qita \notin Range(b[2]) THEN Append(b[2], qita) ELSE b[2]
           saved == save_config(categories, b[3], cfgFile)
       IN  IF b[1] # "OK"
           THEN Return(p, c.op, c.q, Ret(c.op, FALSE, b[1], 0))
           ELSE IF ~saved[1]
           THEN Return(p, c.op, c.q, Ret(c.op, FALSE, saved[2], 0))
           ELSE /\ calls' = [calls EXCEPT ![p] =
                        [pc |-> "write_open", op |-> c.op, q |-> c.q, payload |-> saved[3],
                         msg |-> saved[2]]]
                /\ UNCHANGED ret
    /\ UNCHANGED <<catalogVars, userVars, tmpFile>>

\* admin_category_delete up to SELECT COUNT(1) FROM items WHERE category = ?;
\* q is <<selected_category, request>>
DeleteCount(p, q) ==
    /\ calls[p] = Idle
    /\ LET selected_category == Strip(OrEmpty(q[1]))
           cnt == CountInCategory(items, selected_category)
           op == "admin_category_delete"
       IN  IF ~is_admin_request(q[2], users)
           THEN Return(p, op, q, Ret(op, FALSE, "admin_only", 0))
           ELSE IF selected_category = Empty
           THEN Return(p, op, q, Ret(op, FALSE, "select_category", 0))
           ELSE IF cnt > 0
           THEN Return(p, op, q, Ret(op, FALSE, "category_in_use", cnt))
           ELSE /\ calls' = [calls EXCEPT ![p] =
                        [pc |-> "delete_categories", op |-> op, q |-> q,
                         name |-> selected_category]]
                /\ UNCHANGED ret
    /\ UNCHANGED <<catalogVars, userVars, tmpFile>>

\* delete_category up to categories = get_categories() and the list without
\* the name
DeleteReadCategories(p) ==
    /\ calls[p].pc = "delete_categories"
    /\ LET c == calls[p]
           categories == get_categories(cfgFile)
       IN  IF c.name = qita
           THEN Return(p, c.op, c.q, Ret(c.op, FALSE, "cannot_delete_other", 0))
           ELSE IF c.name \notin Range(categories)
           THEN Return(p, c.op, c.q, Ret(c.op, FALSE, "category_not_found", 0))
           ELSE /\ calls' = [calls EXCEPT ![p] =
                        [pc |-> "delete_fields", op |-> c.op, q |-> c.q, name |-> c.name,
                         categories |-> SelectSeq(categories, LAMBDA x : x # c.name)]]
                /\ UNCHANGED ret
    /\ UNCHANGED <<catalogVars, userVars, tmpFile>>

\* delete_category from fields_map = get_category_fields() to the payload
DeleteReadFields(p) ==
    /\ calls[p].pc = "delete_fields"
    /\ LET c == calls[p]
           saved == save_config(c.categories, DictPop(get_category_fields(cfgFile), c.name),
                                cfgFile)
       IN  IF ~saved[1]
           THEN Return(p, c.op, c.q, Ret(c.op, FALSE, saved[2], 0))
           ELSE /\ calls' = [calls EXCEPT ![p] =
                        [pc |-> "write_open", op |-> c.op, q |-> c.q, payload |-> saved[3],
                         msg |-> saved[2]]]
                /\ UNCHANGED ret
    /\ UNCHANGED <<catalogVars, userVars, tmpFile>>

\* _atomic_write_json, open(tmp, "w"): the one temporary file of every writer
\* is created or cut to nothing
WriteOpen(p) ==
    /\ calls[p].pc = "write_open"
    /\ tmpFile' = TornFile
    /\ calls' = [calls EXCEPT ![p] =
           [pc |-> "write_dump", op |-> calls[p].op, q |-> calls[p].q,
            payload |-> calls[p].payload, msg |-> calls[p].msg, at |-> "tmp"]]
    /\ UNCHANGED <<catalogVars, userVars, ret>>

\* what a file holds after a writer has written text from its start: the
\* text, or, over text another writer put there since the file was cut, the
\* text followed by what is left of a longer one
Overwritten(content, payload) ==
    IF content \in {TornFile, payload} THEN {payload} ELSE {payload, TornFile}

\* _atomic_write_json, json.dump and the close of the file.  at: where the
\* file it has open is by now, under the temporary name or, after another
\* writer's os.replace, under the name of the configuration.
WriteDump(p) ==
    /\ calls[p].pc = "write_dump"
    /\ IF calls[p].at = "tmp"
       THEN /\ tmpFile' \in Overwritten(tmpFile, calls[p].payload)
            /\ UNCHANGED cfgFile
       ELSE /\ cfgFile' \in Overwritten(cfgFile, calls[p].payload)
            /\ UNCHANGED tmpFile
    /\ calls' = [calls EXCEPT ![p] =
           [pc |-> "write_replace", op |-> calls[p].op, q |-> calls[p].q,
            payload |-> calls[p].payload, msg |-> calls[p].msg]]
    /\ UNCHANGED <<items, imageFiles, deletedIds, userVars, ret>>

\* _atomic_write_json, os.replace(tmp, path), and the return of the handler;
\* FileNotFoundError when another writer has moved the temporary file away.
\* present: the items at this moment (history).
WriteReplace(p) ==
    /\ calls[p].pc = "write_replace"
    /\ LET c == calls[p] IN
       IF tmpFile = NoFile
       THEN /\ calls' = [calls EXCEPT ![p] =
                   [pc |-> "done", op |-> c.op, q |-> c.q,
                    ret |-> Raised(c.op, "FileNotFoundError"), payload |-> c.payload]]
            /\ ret' = Raised(c.op, "FileNotFoundError")
            /\ UNCHANGED <<cfgFile, tmpFile>>
       ELSE /\ cfgFile' = tmpFile
            /\ tmpFile' = NoFile
            /\ ret' = Ret(c.op, TRUE, c.msg, 0)
            /\ calls' = [r \in Procs |->
                   IF r = p
                   THEN [pc |-> "done", op |-> c.op, q |-> c.q,
                         ret |-> Ret(c.op, TRUE, c.msg, 0),
                         payload |-> c.payload, present |-> items]
                   ELSE IF calls[r].pc = "write_dump"
                   THEN [calls[r] EXCEPT !.at = "path"]
                   ELSE calls[r]]
    /\ UNCHANGED <<items, imageFiles, deletedIds, userVars>>

\* get_categories() and get_category_fields() called by a page
ReadCategories ==
    /\ ret' = Ret("get_categories", TRUE, "", get_categories(cfgFile))
    /\ UNCHANGED <<catalogVars, userVars, raceVars>>

ReadCategoryFields ==
    /\ ret' = Ret("get_category_fields", TRUE, "", get_category_fields(cfgFile))
    /\ UNCHANGED <<catalogVars, userVars, raceVars>>

(***************************************************************************)
(* Initial state and specifications                                        *)
(***************************************************************************)
UserRow(id, username, password, role, status) ==
    [id |-> id, username |-> username, password |-> password, role |-> role,
     status |-> status, contact |-> contactC, address |-> addressA]

\* the tables _ensure_db_schema creates, the users init_db.py loads (an admin,
\* an approved user, a pending user), no items, no configuration file
Init ==
    /\ users = << UserRow(1, admin, admin123, "admin", "approved"),
                  UserRow(2, user1, password1, "user", "approved"),
                  UserRow(3, user2, password2, "user", "pending") >>
    /\ items = {}
    /\ cfgFile = NoFile
    /\ imageFiles = {}
    /\ ret = Ret("start", TRUE, "", 0)
    /\ deletedIds = {}
    /\ regLog = {}
    /\ calls = [p \in Procs |-> Idle]
    /\ tmpFile = NoFile

NextUsers ==
    \/ \E q \in RegisterRequests : DoRegister(q[1], q[2], q[3], q[4], q[5])
    \/ \E q \in ApproveRequests : AdminApproveUser(q[1], q[2])

AddItems(inputs) ==
    \E q \in inputs :
        AddItem(q.name, q.category, q.description, q.address, q.contact, q.image,
                q.dynamic_values, q.t_image, q.t_create)

DeleteItems(inputs) == \E q \in inputs : DeleteItem(q[1], q[2])

SaveCategories(inputs) ==
    \E q \in inputs : AdminCategorySave(q.selected, q.new_name, q.fields_json, q.request)

DeleteCategories(inputs) == \E q \in inputs : AdminCategoryDelete(q[1], q[2])

\* items under the built-in configuration
ItemsAddInputs ==
    AddInputs({shuji, qita, None}, {<<>>, <<valYPadded, None>>}, {None}, {<<1, 1>>})
    \cup AddInputs({qita, None}, {<<>>}, {photoPng}, Times)
    \cup AddRefusals

NextItems ==
    \/ AddItems(ItemsAddInputs)
    \/ DeleteItems(DeleteItemInputs)

\* the category configuration alone
SchemaSaveInputs ==
    SaveInputs({None, shuji, Books, qita}, {Books, BooksPadded}, {FieldsAuthor, FieldsPadded})
    \cup {SaveReq(None, shuji, JsonList(FieldsAuthor), admin),
          SaveReq(None, Books, JsonList(<<>>), admin),
          SaveReq(None, Books, JsonList(FieldsFull), admin)}
    \cup SaveRefusals

NextSchema ==
    \/ SaveCategories(SchemaSaveInputs)
    \/ DeleteCategories(DeleteCategoryInputs)

\* items and the category configuration together
CatalogAddInputs ==
    AddInputs({shuji, Books, qita}, {<<>>, <<valX>>}, {None}, {<<1, 1>>})
    \cup {AddReq(pen, shipin, contactC, None, <<>>, 1, 1),
          AddReq(pen, shipin, contactC, None, <<blank, valX>>, 1, 1),
          AddReq(Empty, Books, contactC, None, <<valX>>, 1, 1),
          AddReq(None, shuji, contactC, None, <<>>, 1, 1),
          AddReq(pen, Books, Empty, None, <<valX>>, 1, 1)}

CatalogSaveInputs ==
    {SaveReq(None, Books, JsonList(FieldsPadded), admin),
     SaveReq(shuji, Books, JsonList(FieldsPadded), admin),
     SaveReq(None, Books, JsonList(FieldsPadded), user1)}

CatalogDeleteInputs ==
    {<<shuji, admin>>, <<BooksPadded, admin>>, <<qita, admin>>, <<shuji, user1>>}

NextCatalog ==
    \/ AddItems(CatalogAddInputs)
    \/ DeleteItems({<<<<"1">>, TRUE>>, <<<<"2">>, TRUE>>})
    \/ SaveCategories(CatalogSaveInputs)
    \/ DeleteCategories(CatalogDeleteInputs)

\* the same, with add_item called for the categories of the moment only, as
\* the page offers them
NextLiveCatalog ==
    \/ AddItems({q \in CatalogAddInputs : q.category \in Range(get_categories(cfgFile))})
    \/ DeleteItems({<<<<"1">>, TRUE>>, <<<<"2">>, TRUE>>})
    \/ SaveCategories(CatalogSaveInputs)
    \/ DeleteCategories(CatalogDeleteInputs)

SpecLiveCatalog == Init /\ [][NextLiveCatalog]_vars

\* the admin-only handlers, called by the admin, by users and by strangers
AdminRegisterRequests == {<<bob, secret1, secret1, contactC, addressA>>}

AdminApproveRequests == {<<t, rq>> : t \in {bob, user2}, rq \in {admin, None, user1, bob, carol}}

AdminSaveInputs ==
    {SaveReq(None, Books, JsonList(FieldsAuthor), rq) : rq \in {admin, None, user1, bob, carol}}
    \cup {SaveReq(shuji, shuji, JsonList(FieldsPadded), rq) : rq \in {admin, user2}}

AdminDeleteInputs == {<<c, rq>> : c \in {shuji, Books}, rq \in {admin, None, user1, bob, carol}}

NextAdmin ==
    \/ \E q \in AdminRegisterRequests : DoRegister(q[1], q[2], q[3], q[4], q[5])
    \/ \E q \in AdminApproveRequests : AdminApproveUser(q[1], q[2])
    \/ SaveCategories(AdminSaveInputs)
    \/ DeleteCategories(AdminDeleteInputs)

\* items with and without a description, and searches over them
Pen == <<"P", "e", "n">>
cup == <<"c", "u", "p">>
RedPen == <<"R", "e", "d", " ", "p", "e", "n">>

SearchAddInputs ==
    {[AddReq(n, c, contactC, None, <<valX>>, 1, 1) EXCEPT !.description = d] :
        n \in {Pen, cup}, c \in {shuji, qita}, d \in {None, Empty, RedPen}}

Keywords == {None, Empty, pen, <<"P", "E">>, <<"r", "e", "d">>, <<"x">>}

CategoryFilters ==
    {NoFilter, StrFilter(Empty), StrFilter(quanbu), StrFilter(shuji), ListFilter(<<>>),
     ListFilter(<<shuji>>), ListFilter(<<shuji, qita>>), ListFilter(<<shuji, quanbu>>)}

NextSearch ==
    \/ AddItems(SearchAddInputs)
    \/ DeleteItems({<<<<"1">>, TRUE>>})
    \/ \E keyword \in Keywords, category_filter \in CategoryFilters :
           SearchItems(keyword, category_filter)

SpecSearch == Init /\ [][NextSearch]_vars

\* attributes with quotes, backslashes and line breaks, written and read back
k_quoted == <<"k", "\"">>
quoteVal == <<"a", "\"", "b">>
slashVal == <<"\\", "n">>
lineVal == <<"a", "\n", "b">>
braceVal == <<"}", ",", ":">>

CodecSaveInputs ==
    {SaveReq(None, Books, JsonList(<<Field(k_quoted, l_Author, FALSE), Field(k_year, l_Year, FALSE)>>), admin),
     SaveReq(Books, Books, JsonList(FieldsAuthor), admin)}

CodecAddInputs ==
    {AddReq(pen, c, contactC, None, dv, 1, 1) :
        c \in {Books, qita},
        dv \in {<<quoteVal, slashVal>>, <<lineVal>>, <<valYPadded, None>>, <<braceVal, Empty>>}}

\* attributes columns that add_item did not write: NULL, blank, text that is no
\* JSON and JSON that is no object
UndecodableTexts ==
    {None, Empty, blank,
     <<"{">>,
     <<"{", "\"", "a", "\"">>,
     <<"{", "\"", "a", "\"", ":", " ", "\"", "b", "\"", ",", "}">>,
     <<"{", "'", "a", "'", ":", " ", "'", "b", "'", "}">>,
     <<"{", "\"", "a", "\"", ":", " ", "\"", "b", "\"", "}", " ", "x">>,
     <<"a", "b", "c">>,
     <<"[", "]">>,
     <<"1", "2">>,
     <<"\"", "x", "\"">>,
     <<"n", "u", "l", "l">>}

NextCodec ==
    \/ SaveCategories(CodecSaveInputs)
    \/ AddItems(CodecAddInputs)
    \/ DeleteItems({<<<<"1">>, TRUE>>})
    \/ \E attributes_text \in UndecodableTexts \cup {it.attributes : it \in items} :
           ParseAttributes(attributes_text)

SpecCodec == Init /\ [][NextCodec]_vars

\* two request threads, one call each, and pages reading the configuration
ConcurrentAddInputs ==
    {AddReq(pen, shuji, contactC, None, <<valX>>, 1, 1),
     AddReq(pen, qita, contactC, None, <<>>, 1, 1),
     AddReq(pen, None, contactC, None, <<>>, 1, 1),
     AddReq(Empty, qita, contactC, None, <<>>, 1, 1)}

ConcurrentSaveInputs ==
    {SaveReq(None, Books, JsonList(FieldsAuthor), admin),
     SaveReq(None, Novels, JsonList(FieldsPadded), admin),
     SaveReq(shuji, shuji, JsonList(FieldsPadded), admin),
     SaveReq(shuji, Books, JsonList(FieldsAuthor), admin),
     SaveReq(shuji, qita, JsonList(FieldsAuthor), admin),
     SaveReq(None, LongName, JsonList(FieldsAuthor), admin),
     SaveReq(None, Books, JsonList(FieldsAuthor), user1)}

ConcurrentDeleteInputs ==
    {<<shuji, admin>>, <<shipin, admin>>, <<qita, admin>>, <<Books, admin>>, <<Empty, admin>>,
     <<shuji, user1>>}

NextConcurrent ==
    \/ \E p \in Procs, q \in ConcurrentAddInputs : AddItemSelect(p, q)
    \/ \E p \in Procs : AddItemInsert(p)
    \/ \E p \in Procs, q \in ConcurrentSaveInputs : SaveReadCategories(p, q)
    \/ \E p \in Procs : SaveReadFields(p)
    \/ \E p \in Procs, q \in ConcurrentDeleteInputs : DeleteCount(p, q)
    \/ \E p \in Procs : DeleteReadCategories(p)
    \/ \E p \in Procs : DeleteReadFields(p)
    \/ \E p \in Procs : WriteOpen(p)
    \/ \E p \in Procs : WriteDump(p)
    \/ \E p \in Procs : WriteReplace(p)
    \/ ReadCategories
    \/ ReadCategoryFields

SpecConcurrent == Init /\ [][NextConcurrent]_vars

\* registration, approval and login
SpecUsers == Init /\ [][NextUsers]_vars

SpecItems == Init /\ [][NextItems]_vars

SpecSchema == Init /\ [][NextSchema]_vars

SpecCatalog == Init /\ [][NextCatalog]_vars

SpecAdmin == Init /\ [][NextAdmin]_vars

(***************************************************************************)
(* Item ids                                                                *)
(***************************************************************************)
\* the items an add_item step inserts
Inserted == items' \ items

C6_NewIdIsMaxPlusOne ==
    [][ret'.op = "add_item" /\ ret'.ok =>
          \E new \in Inserted :
              /\ items' = items \cup {new}
              /\ new.id = ret'.info
              /\ new.id = IF items = {} THEN 1 ELSE 1 + Max(ItemIds(items))]_vars

\* C6, its case reached: add_item succeeded on a table that held items, after a removal.
C6_AddedToNonEmptyTable ==
    ret.op = "add_item" /\ ret.ok /\ ret.info > 1 /\ Cardinality(items) > 1 /\ deletedIds # {}

(***************************************************************************)
(* Registration, approval and login                                        *)
(***************************************************************************)
Usernames(tbl) == {tbl[i].username : i \in 1..Len(tbl)}

\* every name and password a caller may type, the stored ones included
LoginNames == UsernameInputs \cup {admin, user2}
LoginPasswords == PasswordInputs \cup {admin123, password1}

\* the messages of register_user's checks on its four inputs
ValidationMessages ==
    {"username_or_password_empty", "username_too_short", "password_too_short",
     "contact_empty", "address_empty"}

\* C2 as stated: once register_user(u, p, ..) and then approve_user(u) have
\* succeeded, authenticate_user(u, p, require_approved = True) is true.
C2_RegisteredApprovedUserLogsIn ==
    \A e \in regLog : e[3] => authenticate_user(e[1], e[2], users, TRUE)

\* C3: the login check accepts a name and a password only when a row has that
\* name, the status approved and that password; this holds of authenticate_user
\* with require_approved and of the login callback authenticate.
C3_LoginOnlyApprovedWithStoredPassword ==
    \A u \in LoginNames, p \in LoginPasswords :
        authenticate_user(u, p, users, TRUE) \/ authenticate(u, p, users) =>
            \E i \in 1..Len(users) :
                /\ users[i].username = u
                /\ users[i].status = "approved"
                /\ users[i].password = p

\* C3, its case reached: a user just registered is pending and is refused with
\* the stored password, while an approved user logs in.
C3_PendingUserRefused ==
    /\ ret.op = "do_register" /\ ret.ok
    /\ \E i \in 1..Len(users) :
           /\ users[i].id > 3 /\ users[i].status = "pending"
           /\ ~authenticate_user(users[i].username, users[i].password, users, TRUE)
    /\ authenticate_user(user1, password1, users, TRUE)
    /\ ~authenticate_user(ab, password1, users, TRUE)

\* C7: register_user given a username shorter than 3 characters, a password
\* shorter than 6, an empty contact or an empty address fails with the message
\* of one of its checks and leaves the users table as it is.
C7_InvalidRegistrationCreatesNoUser ==
    \A u \in UsernameInputs, p \in PasswordInputs, c \in ContactInputs, a \in AddressInputs :
        (\/ Len(OrEmpty(u)) < 3
         \/ Len(OrEmpty(p)) < 6
         \/ OrEmpty(c) = Empty
         \/ OrEmpty(a) = Empty) =>
            LET r == register_user(u, p, c, a, users) IN
            ~r[1] /\ r[2] \in ValidationMessages /\ r[3] = users

\* C7, its case reached: do_register has just refused a registration for one of
\* these reasons, after a user was registered.
C7_RegistrationRefused ==
    ret.op = "do_register" /\ ~ret.ok /\ ret.msg \in ValidationMessages /\ Len(users) > 3

\* C9: no two rows of users share a username, and register_user with inputs that
\* pass its checks and a username some row already has returns the
\* username-exists failure and leaves the table as it is.
C9_UsernamesUnique ==
    /\ \A i, j \in 1..Len(users) : users[i].username = users[j].username => i = j
    /\ \A u \in UsernameInputs, p \in PasswordInputs, c \in ContactInputs, a \in AddressInputs :
           /\ RegisterValidation(Strip(OrEmpty(u)), Strip(OrEmpty(p)), Strip(c), Strip(a)) = "OK"
           /\ Strip(OrEmpty(u)) \in Usernames(users)
           => register_user(u, p, c, a, users) = <<FALSE, "username_exists", users>>

\* C9, its case reached: do_register has just refused a username that an
\* earlier registration took.
C9_SecondRegistrationRefused ==
    /\ ret.op = "do_register" /\ ~ret.ok /\ ret.msg = "username_exists"
    /\ \E i \in 1..Len(users) : users[i].id > 3 /\ users[i].username = bob

\* C10: a step keeps every row of users, changes a row only by turning pending
\* into approved, and only in admin_approve_user; approve_user of an approved
\* user succeeds and of an unknown user fails, both leaving the table as it is.
C10_StatusOnlyPendingToApproved ==
    [][/\ Len(users') >= Len(users)
       /\ \A i \in 1..Len(users) :
              \/ users'[i] = users[i]
              \/ /\ users[i].status = "pending"
                 /\ users'[i] = [users[i] EXCEPT !.status = "approved"]
                 /\ ret'.op = "admin_approve_user"
       /\ \A t \in ApproveInputs :
              LET r == approve_user(t, users) IN
              /\ (\E i \in 1..Len(users) :
                     users[i].username = Strip(t) /\ users[i].status = "approved")
                 => r[1] /\ r[3] = users
              /\ Strip(t) \notin Usernames(users) => ~r[1] /\ r[3] = users]_vars

\* C10, its case reached: a registered user was approved and admin_approve_user
\* has just been asked to approve an approved user again.
C10_ApprovedAgain ==
    /\ ret.op = "admin_approve_user" /\ ret.ok /\ ret.msg = "already_approved"
    /\ \E i \in 1..Len(users) : users[i].id > 3 /\ users[i].status = "approved"

(***************************************************************************)
(* Categories, their fields and the items that use them                    *)
(***************************************************************************)
\* what reading a category that has no entry gives
NoEntry == <<NoField>>

FieldsOf(file, category) == DictGet(get_category_fields(file), category, NoEntry)

\* C4: admin_category_delete of the admin, for a name some item has as its
\* category, fails, reports the number of those items and leaves the
\* configuration file as it is; for a category other than the catch-all that no
\* item has, it succeeds and the name is then neither in get_categories nor a key
\* of get_category_fields.  The step itself never changes the items.
C4_CategoryInUseIsNotDeleted ==
    [][ret'.op = "admin_category_delete" =>
          /\ items' = items
          /\ \A q \in DeleteCategoryInputs :
                 LET name == q[1]
                     r == admin_category_delete(name, admin, items, users, cfgFile)
                     using == {it \in items : it.category = name}
                 IN  /\ using # {} =>
                            r = <<FALSE, "category_in_use", Cardinality(using), cfgFile>>
                     /\ (/\ using = {}
                         /\ name \in Range(get_categories(cfgFile))
                         /\ name # qita) =>
                            /\ r[1]
                            /\ name \notin Range(get_categories(r[4]))
                            /\ ~DictHas(get_category_fields(r[4]), name)]_vars

\* C4, its case reached: after one category was deleted, admin_category_delete
\* has just refused to delete one that two items have.
C4_DeleteRefusedForTwoItems ==
    /\ ret.op = "admin_category_delete" /\ ~ret.ok
    /\ ret.msg = "category_in_use" /\ ret.info = 2
    /\ shuji \notin Range(get_categories(cfgFile))

\* the value add_item reads for the field at position i
Supplied(dynamic_values, i) ==
    IF i <= Len(dynamic_values) THEN OrEmpty(dynamic_values[i]) ELSE Empty

\* the positions of the required fields of defs whose value is empty once trimmed
EmptyRequired(defs, dynamic_values) ==
    {i \in 1..Len(defs) : defs[i].required /\ Strip(Supplied(dynamic_values, i)) = Empty}

\* C5: add_item with an empty name, an empty contact, or an empty value for a
\* required field of the category's fields as they are now, fails and leaves
\* the items as they are; with name and contact given it reports the label of
\* every such field, in the order of the fields.
C5_IncompleteItemIsNotAdded ==
    \A q \in CatalogAddInputs :
        LET r == add_item(q.name, q.category, q.description, q.address, q.contact, q.image,
                          q.dynamic_values, q.t_image, q.t_create, items, imageFiles, cfgFile)
            defs == FieldsOf(cfgFile, q.category)
            empty == IF defs = NoEntry THEN {} ELSE EmptyRequired(defs, q.dynamic_values)
        IN  /\ ~Truthy(q.name) \/ ~Truthy(q.contact) \/ empty # {} =>
                   ~r.ret.ok /\ ~r.ret.raised /\ r.items = items
            /\ Truthy(q.name) /\ Truthy(q.contact) /\ empty # {} =>
                   /\ r.ret.msg = "missing_required"
                   /\ Len(r.ret.info) = Cardinality(empty)
                   /\ \A i \in empty :
                          r.ret.info[Cardinality({j \in empty : j <= i})] = defs[i].label

\* C5, its case reached: add_item has just refused an item of a category the
\* admin created, naming the required field left empty, with an item in the table.
C5_AddRefusedForRequiredField ==
    /\ ret.op = "add_item" /\ ~ret.ok /\ ret.msg = "missing_required"
    /\ ret.info = <<l_Author>>
    /\ items # {}

\* C8 as stated: after a successful upsert_category(old_name, new_name, fields),
\* get_category_fields()[new_name] is the list fields.
C8_StoredFieldsAreTheGivenFields ==
    [][\A q \in SchemaSaveInputs :
          /\ q.fields_json.kind = "list"
          /\ AdminCategorySave(q.selected, q.new_name, q.fields_json, q.request)
          /\ ret'.ok
          => FieldsOf(cfgFile', q.new_name) = q.fields_json.v]_vars

\* C8 as amended: after a successful upsert_category(old_name, new_name, fields),
\* get_category_fields() has under new_name trimmed a list as long as fields,
\* whose i-th field has the i-th key trimmed, the i-th label trimmed and the
\* i-th required flag.
C8_StoredFieldsAreTheGivenFieldsTrimmed ==
    \A q \in SchemaSaveInputs :
        q.fields_json.kind = "list" =>
            LET r == upsert_category(q.selected, q.new_name, q.fields_json, cfgFile)
                given == q.fields_json.v
                got == FieldsOf(r[3], Strip(q.new_name))
            IN  r[1] =>
                    /\ got # NoEntry
                    /\ Len(got) = Len(given)
                    /\ \A i \in 1..Len(given) :
                           /\ got[i].key = Strip(given[i].key)
                           /\ got[i].label = Strip(given[i].label)
                           /\ got[i].required = given[i].required

\* C8, its case reached: admin_category_save has just succeeded and the
\* category Books has the two fields given with padded key and label, trimmed.
C8_PaddedFieldsStoredTrimmed ==
    /\ ret.op = "admin_category_save" /\ ret.ok
    /\ FieldsOf(cfgFile, Books) = <<Field(k_author, l_Author, TRUE), Field(k_year, l_Year, FALSE)>>
    /\ FieldsOf(cfgFile, BooksPadded) = NoEntry

(***************************************************************************)
(* Who may approve users and edit categories                               *)
(***************************************************************************)
\* the acting users a request may carry: none, a stranger, users, the admin
Actors == {None, Empty, admin, user1, user2, bob, carol}

\* what the claim counts as no admin: no acting user, or no row of users with
\* that name and the role admin
NotAdmin(rq) ==
    \/ rq = None \/ rq = Empty
    \/ ~\E i \in 1..Len(users) : users[i].username = rq /\ users[i].role = "admin"

\* C11: for an acting user that is absent, unknown or no admin, admin_approve_user,
\* admin_category_save and admin_category_delete fail and return the users table
\* and the configuration file as they are.
C11_OnlyAdminApprovesAndEdits ==
    \A rq \in Actors :
        NotAdmin(rq) =>
            /\ \A t \in ApproveInputs :
                   LET r == admin_approve_user(t, rq, users) IN ~r[1] /\ r[3] = users
            /\ \A q \in SchemaSaveInputs :
                   LET r == admin_category_save(q.selected, q.new_name, q.fields_json, rq,
                                                users, cfgFile)
                   IN  ~r[1] /\ r[3] = cfgFile
            /\ \A q \in DeleteCategoryInputs :
                   LET r == admin_category_delete(q[1], rq, items, users, cfgFile)
                   IN  ~r[1] /\ r[4] = cfgFile

\* C11, its case reached: bob, registered and approved, has just been refused
\* a category edit, after the admin changed the configuration.
C11_ApprovedUserRefused ==
    /\ ret.op \in {"admin_category_save", "admin_category_delete"}
    /\ ~ret.ok /\ ret.msg = "admin_only"
    /\ cfgFile # NoFile
    /\ \E i \in 1..Len(users) : users[i].username = bob /\ users[i].status = "approved"

(***************************************************************************)
(* The catch-all category                                                  *)
(***************************************************************************)
\* C12: the catch-all is in get_categories() and in every configuration file
\* written, and delete_category and admin_category_delete of the catch-all fail
\* and leave the file as it is.
C12_CatchAllStays ==
    /\ qita \in Range(get_categories(cfgFile))
    /\ cfgFile # NoFile => qita \in Range(cfgFile.categories)
    /\ LET r == delete_category(qita, cfgFile) IN ~r[1] /\ r[3] = cfgFile
    /\ LET r == admin_category_delete(qita, admin, items, users, cfgFile)
       IN  ~r[1] /\ r[4] = cfgFile

\* C12, its case reached: after edits of the configuration that removed a
\* category, admin_category_delete has just refused to delete the catch-all.
C12_CatchAllDeleteRefused ==
    /\ ret.op = "admin_category_delete" /\ ~ret.ok /\ ret.msg = "cannot_delete_other"
    /\ cfgFile # NoFile
    /\ shuji \notin Range(get_categories(cfgFile))

\* C13 as stated: upsert_category with the catch-all as old_name and another
\* new_name fails and leaves get_categories() and get_category_fields() as
\* they were.
C13_CatchAllRenameFails ==
    [][\A q \in SchemaSaveInputs :
          /\ ret'.op = "admin_category_save"
          /\ Strip(OrEmpty(q.selected)) = qita
          /\ Strip(OrEmpty(q.new_name)) # qita
          /\ AdminCategorySave(q.selected, q.new_name, q.fields_json, q.request)
          => /\ ~ret'.ok
             /\ get_categories(cfgFile') = get_categories(cfgFile)
             /\ get_category_fields(cfgFile') = get_category_fields(cfgFile)]_vars

(***************************************************************************)
(* Refused edits of the configuration                                      *)
(***************************************************************************)
FieldsBlankKey == <<Field(blank, l_Author, TRUE)>>

\* <<new_name, fields>> that upsert_category is to refuse: no name, a name of
\* more than 20 characters, a field without key or label, a repeated key, more
\* fields than MAX_DYNAMIC_FIELDS
InvalidUpserts ==
    ({None, Empty, blank, LongName} \X {FieldsAuthor})
    \cup ({Books, shuji} \X {FieldsBlankKey, FieldsBlankLabel, FieldsRepeatedKey, FieldsTooMany})

ValidationFailures ==
    {"name_empty", "name_too_long", "field_needs_key_and_label", "duplicate_field_key",
     "too_many_fields"}

\* C14: upsert_category with an invalid name or invalid fields, whatever old_name
\* is, returns failure with the message of the check, and the configuration
\* file is what it was (not written when absent).
C14_InvalidUpsertCommitsNothing ==
    \A old \in {None, shuji, Books, qita} : \A u \in InvalidUpserts :
        LET r == upsert_category(old, u[1], JsonList(u[2]), cfgFile)
        IN  ~r[1] /\ r[2] \in ValidationFailures /\ r[3] = cfgFile

\* C14, its case reached: admin_category_save has just been refused by a check
\* of upsert_category, on a configuration edited before.
C14_UpsertRefused ==
    /\ ret.op = "admin_category_save" /\ ~ret.ok
    /\ ret.msg \in {"name_too_long", "duplicate_field_key", "too_many_fields"}
    /\ cfgFile # NoFile
    /\ Books \in Range(get_categories(cfgFile))

(***************************************************************************)
(* The shape of the configuration                                          *)
(***************************************************************************)
NoRepeats(seq) == \A i, j \in 1..Len(seq) : seq[i] = seq[j] => i = j

\* C15: in every reachable configuration get_categories() names no category
\* twice, and every category's field list in get_category_fields() has at most
\* MAX_DYNAMIC_FIELDS fields whose keys are pairwise distinct.
C15_ConfigurationWellFormed ==
    LET categories == get_categories(cfgFile)
        fields_map == get_category_fields(cfgFile)
    IN  /\ NoRepeats(categories)
        /\ NoRepeats(List([n \in 1..Len(fields_map) |-> fields_map[n][1]]))
        /\ \A n \in 1..Len(fields_map) :
               /\ Len(fields_map[n][2]) <= MAX_DYNAMIC_FIELDS
               /\ NoRepeats(List([i \in 1..Len(fields_map[n][2]) |-> fields_map[n][2][i].key]))

\* C15, its case reached: the built-in category shuji has been inserted again
\* and carries the one field of that request, and Books has been given as many
\* fields as are allowed.
C15_ReinsertedAndFull ==
    /\ cfgFile # NoFile
    /\ DictHas(get_category_fields(cfgFile), shuji)
    /\ Len(FieldsOf(cfgFile, shuji)) = 1
    /\ FieldsOf(cfgFile, shuji)[1].key = k_author
    /\ Len(FieldsOf(cfgFile, Books)) = MAX_DYNAMIC_FIELDS
    /\ Len(SelectSeq(get_categories(cfgFile), LAMBDA c : c = shuji)) = 1

(***************************************************************************)
(* Roles                                                                   *)
(***************************************************************************)
AdminsOf(tbl) == {tbl[i].username : i \in {j \in 1..Len(tbl) : tbl[j].role = "admin"}}

\* C16: whatever is registered and approved, the users with role admin are those
\* of the seed data and every later row has role user; and a register_user that
\* succeeds, for any input, appends one row with role user and status pending
\* and leaves every other row as it is.
C16_RegistrationGrantsNothing ==
    /\ AdminsOf(users) = {admin}
    /\ \A i \in 1..Len(users) : users[i].username # admin => users[i].role = "user"
    /\ \A q \in RegisterRequests \cup {<<admin, secret1, secret1, contactC, addressA>>} :
           LET r == register_user(q[1], q[2], q[4], q[5], users)
           IN  r[1] => /\ Len(r[3]) = Len(users) + 1
                       /\ SubSeq(r[3], 1, Len(users)) = users
                       /\ r[3][Len(r[3])].role = "user"
                       /\ r[3][Len(r[3])].status = "pending"
                       /\ AdminsOf(r[3]) = AdminsOf(users)

\* C16, its case reached: two users have registered, bob has been approved and
\* the last request approved another user.
C16_RegisteredAndApproved ==
    /\ ret.op = "admin_approve_user" /\ ret.ok
    /\ Len(users) >= 5
    /\ \E i \in 1..Len(users) :
           users[i].username = bob /\ users[i].status = "approved" /\ users[i].role = "user"

(***************************************************************************)
(* The category of a new item                                              *)
(***************************************************************************)
\* C17 as stated: an item that a step creates has a category that
\* get_categories() held when the step began; add_item with any other category
\* creates none.
C17_NewItemHasLiveCategory ==
    [][\A it \in items' \ items : it.category \in Range(get_categories(cfgFile))]_vars

(***************************************************************************)
(* Search results                                                          *)
(***************************************************************************)
\* the category restriction: none for a filter that is absent, empty, the
\* sentinel or a list holding the sentinel
CategoryAccepts(category_filter, item) ==
    \/ category_filter = NoFilter
    \/ category_filter.v = <<>>
    \/ category_filter.kind = "str" /\ category_filter.v \in {quanbu, item.category}
    \/ category_filter.kind = "list" /\ Range(category_filter.v) \cap {quanbu, item.category} # {}

\* the keyword restriction: none for an empty keyword; a missing description
\* holds no keyword
KeywordAccepts(keyword, item) ==
    \/ ~Truthy(keyword)
    \/ Contains(Lower(keyword), Lower(item.name))
    \/ item.description # None /\ Contains(Lower(keyword), Lower(item.description))

Ascending(rows) == \A i, j \in 1..Len(rows) : i < j => rows[i].id < rows[j].id

\* the items a search is to return, in the order of load_items
Expected(keyword, category_filter, tbl) ==
    SelectSeq(load_items(tbl),
              LAMBDA item : CategoryAccepts(category_filter, item) /\ KeywordAccepts(keyword, item))

\* C18 as stated: for every keyword and category filter, search_items returns,
\* in ascending order of id, exactly the items that pass the category
\* restriction and the keyword restriction.
C18_SearchReturnsTheMatches ==
    \A keyword \in Keywords, category_filter \in CategoryFilters :
        LET r == search_items(keyword, category_filter, items)
        IN  /\ ~r.raised
            /\ r.rows = Expected(keyword, category_filter, items)
            /\ Ascending(r.rows)

\* The same over the items that all have a description (an empty one included).
SearchReturnsTheMatchesOfDescribedItems ==
    (\A it \in items : it.description # None) =>
        \A keyword \in Keywords, category_filter \in CategoryFilters :
            LET r == search_items(keyword, category_filter, items)
            IN  /\ ~r.raised
                /\ r.rows = Expected(keyword, category_filter, items)
                /\ Ascending(r.rows)

\* C20 as stated: a search with a non-empty keyword ends without an exception
\* whatever the items are, and an item without description is among its rows
\* exactly when it passes the category filter and the keyword is in its name.
C20_SearchSurvivesMissingDescription ==
    \A keyword \in {k \in Keywords : Truthy(k)}, category_filter \in CategoryFilters :
        LET r == search_items(keyword, category_filter, items)
        IN  /\ ~r.raised
            /\ \A it \in {o \in items : o.description = None} :
                   it \in Range(r.rows) <=>
                       /\ CategoryAccepts(category_filter, it)
                       /\ Contains(Lower(keyword), Lower(it.name))

(***************************************************************************)
(* The attributes column                                                   *)
(***************************************************************************)
\* dicts of str with up to two keys, in either order
Mappings ==
    LET values == {Empty, quoteVal, slashVal, lineVal, braceVal}
    IN  {<<>>}
        \cup {<<<<k, v>>>> : k \in {k_author, k_quoted}, v \in values}
        \cup {<<<<k[1], v>>, <<k[2], w>>>> :
                 k \in {<<k_author, k_quoted>>, <<k_quoted, k_author>>}, v \in values, w \in values}

\* C19: _parse_attributes of json.dumps(m) is m for every dict m of str; the
\* attributes text of every stored item is the json.dumps of what
\* _parse_attributes reads from it; and _parse_attributes returns the empty
\* dict for None, for blank text, for text that json.loads rejects and for
\* JSON that is no object.
C19_DecodeInvertsEncode ==
    /\ \A m \in Mappings : parse_attributes(json_dumps(m)) = m
    /\ \A it \in items :
           /\ parse_attributes(it.attributes) # Unmodelled
           /\ json_dumps(parse_attributes(it.attributes)) = it.attributes
    /\ \A text \in UndecodableTexts : parse_attributes(text) = <<>>

\* C19, its case reached: _parse_attributes has just read the attributes text of
\* a stored item and returned a dict with a value that holds a quote.
C19_StoredAttributesDecoded ==
    /\ ret.op = "_parse_attributes"
    /\ ret.info # <<>>
    /\ \E it \in items : it.attributes = json_dumps(ret.info)
    /\ \E n \in 1..Len(ret.info) : "\"" \in Range(ret.info[n][2])

(***************************************************************************)
(* The outcome of add_item                                                 *)
(***************************************************************************)
\* C21 as stated: add_item with a name and a contact, the category None
\* included, returns a success or a failure and never ends with an exception.
C21_AddItemReturnsAnOutcome == ret.op = "add_item" => ~ret.raised

(***************************************************************************)
(* Renaming a category                                                     *)
(***************************************************************************)

\* what C22 says of upsert_category(old_name, new_name, fields) with two
\* different names, the given fields read as _normalize_field leaves them
RenameAsStated(old_name, new_name, fields) ==
    LET r == upsert_category(old_name, new_name, JsonList(fields), cfgFile)
        before == get_categories(cfgFile)
        after == get_categories(r[3])
    IN  IF new_name \in Range(before) \/ old_name \notin Range(before)
        THEN ~r[1] /\ r[3] = cfgFile
        ELSE /\ r[1]
             /\ Len(after) = Len(before)
             /\ \A i \in 1..Len(before) :
                    after[i] = IF before[i] = old_name THEN new_name ELSE before[i]
             /\ old_name \notin Range(after)
             /\ ~DictHas(get_category_fields(r[3]), old_name)
             /\ FieldsOf(r[3], new_name) = NormalizeAll(fields)

\* C22 as stated: a rename fails and changes nothing when new_name exists or
\* old_name does not; otherwise new_name takes the place of old_name in the
\* list, the other names keep theirs, old_name is gone from get_categories()
\* and get_category_fields(), and new_name has the fields.
C22_RenameInPlace ==
    \A old_name \in {shuji, Books, Novels, qita}, new_name \in {Books, Novels, shuma} :
        \A fields \in {<<>>, FieldsAuthor, FieldsPadded} :
            old_name # new_name => RenameAsStated(old_name, new_name, fields)

\* The same for every old_name but the catch-all.
RenameInPlaceOfOtherCategories ==
    \A old_name \in {shuji, Books, Novels}, new_name \in {Books, Novels, shuma} :
        \A fields \in {<<>>, FieldsAuthor, FieldsPadded} :
            old_name # new_name => RenameAsStated(old_name, new_name, fields)

(***************************************************************************)
(* The attributes of a new item                                            *)
(***************************************************************************)
\* the i-th dynamic value as typed, trimmed; nothing typed is the empty text
Trimmed(dynamic_values, i) ==
    IF i <= Len(dynamic_values) /\ dynamic_values[i] # None
    THEN Strip(dynamic_values[i]) ELSE Empty

AttributeInputs ==
    CodecAddInputs
    \cup {AddReq(pen, shuji, contactC, None, dv, 1, 1) : dv \in {<<valYPadded>>, <<valX, quoteVal, valX>>}}

\* C23: the item of a successful add_item has, read back from its attributes
\* column, one entry for each field the category has in the configuration of
\* that moment, in the order of the fields, under the field's key, and its
\* value is the dynamic value of that position, trimmed.
C23_AttributesFollowTheFields ==
    \A q \in AttributeInputs :
        LET r == add_item(q.name, q.category, q.description, q.address, q.contact, q.image, q.dynamic_values, q.t_image, q.t_create, items, imageFiles, cfgFile)
            field_defs == DictGet(get_category_fields(cfgFile), q.category, <<>>)
        IN  r.ret.ok =>
                \A it \in r.items \ items :
                    LET m == parse_attributes(it.attributes) IN
                    /\ Len(m) = Len(field_defs)
                    /\ \A i \in 1..Len(field_defs) :
                           m[i] = <<field_defs[i].key, Trimmed(q.dynamic_values, i)>>

\* C23, its case reached: add_item has just stored an item of category Books,
\* which has two fields then; the padded value is stored trimmed under the first
\* key and the empty text under the second.
C23_EmptyValueStored ==
    /\ ret.op = "add_item" /\ ret.ok
    /\ Len(FieldsOf(cfgFile, Books)) = 2
    /\ \E it \in items :
           /\ it.id = ret.info
           /\ it.category = Books
           /\ parse_attributes(it.attributes) = <<<<k_quoted, <<"y">>>>, <<k_year, Empty>>>>

(***************************************************************************)
(* What a step does to the items                                           *)
(***************************************************************************)
\* C24: a delete_item that fails leaves the items as they are; one that
\* succeeds removes the one item of the id it reports, and every other item
\* stays as it is; and no step of any handler changes an item: an item of before
\* is there afterwards, equal in every column, unless delete_item has just
\* removed it.
C24_DeleteRemovesOneItemOnly ==
    [][/\ ret'.op = "delete_item" /\ ~ret'.ok => items' = items
       /\ ret'.op = "delete_item" /\ ret'.ok =>
              /\ ret'.info \in ItemIds(items)
              /\ items' = {it \in items : it.id # ret'.info}
              /\ Cardinality(items') = Cardinality(items) - 1
       /\ ret'.op # "delete_item" => items \subseteq items']_vars

\* C24, its case reached: delete_item has just removed one of two items and
\* the other is still there.
C24_OneOfTwoDeleted ==
    /\ ret.op = "delete_item" /\ ret.ok /\ ret.info = 2
    /\ ItemIds(items) = {1}
    /\ deletedIds = {2}

(***************************************************************************)
(* Handlers running at the same time                                       *)
(***************************************************************************)
\* the calls of a handler that have returned
Returned(op) == {p \in Procs : calls[p].pc = "done" /\ calls[p].op = op}

\* C25: of two add_item calls running at the same time, each for an item with
\* a category, each returns an outcome and raises nothing, and the items have
\* pairwise distinct ids.
C25_InterleavedAddsReturnOutcomes ==
    /\ \A p \in Returned("add_item") :
           calls[p].q.category # None => ~calls[p].ret.raised
    /\ \A a, b \in items : a.id = b.id => a = b

\* C25, the half of it the INSERT keeps: no two items share an id.
InterleavedAddsKeepIdsDistinct == \A a, b \in items : a.id = b.id => a = b

\* the names a call to admin_category_save or admin_category_delete is about
Touched(c) ==
    IF c.op = "admin_category_save"
    THEN {Strip(OrEmpty(c.q.selected)), Strip(OrEmpty(c.q.new_name))} \ {Empty}
    ELSE {Strip(OrEmpty(c.q[1]))}

\* the configuration file after the call has run alone on file
Alone(c, file) ==
    IF c.op = "admin_category_save"
    THEN admin_category_save(c.q.selected, c.q.new_name, c.q.fields_json, c.q.request, users, file)[3]
    ELSE admin_category_delete(c.q[1], c.q[2], items, users, file)[4]

SchemaOps == {"admin_category_save", "admin_category_delete"}

\* C26: when two calls that edit the categories, each about other names than
\* the other, have run at the same time and both have returned, the
\* configuration is the one that the two calls, run one after the other in one
\* of the two orders, leave behind.
C26_EditsAsInSomeOrder ==
    (/\ \A p \in Procs : calls[p].pc = "done" /\ calls[p].op \in SchemaOps
     /\ Touched(calls[1]) \cap Touched(calls[2]) = {})
    => \E o \in {<<1, 2>>, <<2, 1>>} :
           load_config(cfgFile) = load_config(Alone(calls[o[2]], Alone(calls[o[1]], NoFile)))

\* the writes begun, and those of them that have replaced the configuration
Writes == {p \in Procs : "payload" \in DOMAIN calls[p]}
Replaced == {p \in Procs : "present" \in DOMAIN calls[p]}

\* the configuration files a reader may find: what a write begun has to
\* write, and, as long as no write has replaced it, the file of the start
Whole == {calls[p].payload : p \in Writes} \cup (IF Replaced = {} THEN {NoFile} ELSE {})

OneWriterLeavesFileWhole == Cardinality(Writes) <= 1 => cfgFile \in Whole /\ cfgFile # TornFile

\* C28: admin_category_delete has not returned success for a category while,
\* at the moment the configuration without it replaced the old one, an item of
\* that category was in the items table.
C28_DeleteLeavesNoItemBehind ==
    \A p \in Returned("admin_category_delete") :
        calls[p].ret.ok =>
            \A it \in calls[p].present : it.category # Strip(OrEmpty(calls[p].q[1]))

(***************************************************************************)
(* The categories, their fields and the items together                     *)
(***************************************************************************)
\* C29: the keys of get_category_fields() are the names of get_categories(),
\* and an upsert_category that succeeds leaves its new name among the
\* categories, also when it only gives a category other fields.
C29_FieldMapFollowsCategories ==
    /\ DictKeys(get_category_fields(cfgFile)) = Range(get_categories(cfgFile))
    /\ \A q \in SchemaSaveInputs :
           LET r == upsert_category(q.selected, q.new_name, q.fields_json, cfgFile)
           IN  r[1] => Strip(OrEmpty(q.new_name)) \in Range(get_categories(r[3]))

\* C29, the half of it that holds: every category has its entry in the map.
EveryCategoryHasFields ==
    Range(get_categories(cfgFile)) \subseteq DictKeys(get_category_fields(cfgFile))

\* the items whose category is a category of the configuration
LiveItems(tbl, file) == {it \in tbl : it.category \in Range(get_categories(file))}

\* C30: where every item was added under a category of that moment, after
\* every admin_category_save and admin_category_delete that succeeds every
\* item has a category of the configuration.
C30_NoItemOrphaned ==
    ret.op \in SchemaOps /\ ret.ok => LiveItems(items, cfgFile) = items

\* C30, the half of it that holds: an admin_category_delete that succeeds
\* takes the category of no item away.
DeleteOrphansNoItem ==
    [][ret'.op = "admin_category_delete" /\ ret'.ok
           => LiveItems(items, cfgFile) \subseteq LiveItems(items', cfgFile')]_vars

====
